---- MODULE Spec2Model ----
(***************************************************************************)
(* Model of the EncodeTalker daemon: the job store and scheduler           *)
(* (queue/manager.rs), its persistence (queue/persist.rs), the job record  *)
(* (types/job.rs) and the video stage of the pipeline                      *)
(* (encoder/pipeline.rs).                                                  *)
(*                                                                         *)
(* Every action is one atomic block of the code: from one await on a lock  *)
(* (or on a channel / notify) to the next one.  A tokio RwLock guard that  *)
(* lives across a later await is kept in `locks`; a guard that is taken    *)
(* and dropped inside one statement only appears as a guard (CanRead /     *)
(* CanWrite) of the action.                                                *)
(***************************************************************************)
EXTENDS Integers, Sequences, FiniteSets, TLC

\* ---------------------------------------------------------------- bounds
\* concurrent client connections
NumClients == 2
\* what the environment does in one run: client requests, auto-save events and
\* daemon restarts, counted together
MaxEvents == 4

\* daemon.max_concurrent_jobs, the default of the configuration
max_concurrent == 1

\* every request may create a job
JobIds == 1..MaxEvents
Clients == 1..NumClients
None == 0

\* ---------------------------------------------------------------- state
VARIABLES
    queue,            \* VecDeque<EncodingJob>
    active,           \* HashMap<Uuid, EncodingJob>, as a function on its key set
    history,          \* Vec<EncodingJob>
    active_controls,  \* key set of HashMap<Uuid, ActiveJobControl>
    cancel_rx,        \* per job: a cancel message is waiting in its channel
    accepting_jobs,   \* the admission gate
    start_notify,     \* the stored permit of tokio::sync::Notify
    locks,            \* guards of queue/active/history held across an await
    starter,          \* run_job_starter: position and the job it popped
    tasks,            \* per job id: the task spawned by start_job
    clients,          \* per connection: the request being handled
    saver,            \* the auto-save task: position and the snapshot it builds
    last_event,       \* per job id: the last lifecycle event sent on event_tx
    disk,             \* the state file and its temporary sibling
    save_call,        \* history variable: the state file before the last call of
                      \* Persistence::save, and the snapshot that call was given
    events,           \* client requests, auto-save events and restarts so far
    order,            \* history variable: ids waiting for dispatch, in append order
    accepted,         \* history variable: ids the store has accepted and not dropped
    pipe,             \* encode_video: the two children, their mutexes, the two racers
    event_tx,         \* the mpsc channel of QueueEvents (q), and whether the forwarding
                      \* task of the IPC server is followed (rx); the specifications
                      \* that do not follow the server leave the channel aside
    bcast,            \* the broadcast channel of run_with_listener: every Event sent
    conn,             \* per connection: handle_client, its socket and its receiver
    main,             \* main(): its position in the shutdown sequence, the socket file
    parser,           \* one StatsParser: its EncodingStats
    stats_rx,         \* per job: the EncodingStats waiting in its progress channel
    encode,           \* one call of encode_job: its position, the stages started
    reader,           \* the thread reading the encoder's stderr: stream, buffer, records
    probe,            \* one call of probe_video: what ffprobe and the count gave
    frame_rate,       \* one call of parse_frame_rate: the string and the value returned
    saves             \* two calls of Persistence::save at once: the files, the calls

vars == << queue, active, history, active_controls, cancel_rx, accepting_jobs,
           start_notify, locks, starter, tasks, clients, saver, last_event, event_tx,
           disk, save_call, events, order, accepted, pipe, bcast, conn,
           main, parser, stats_rx, encode, reader, probe, frame_rate, saves >>

\* the calls followed on their own
calls == << encode, reader, probe, frame_rate, saves >>

\* what the store, the server and the pipeline leave alone
others == << main, parser, stats_rx, calls >>

\* no call is followed
NoCall == [ pc |-> "none" ]

storeVarsButSaver ==
    << queue, active, history, active_controls, cancel_rx, accepting_jobs,
       start_notify, locks, starter, tasks, clients, last_event, event_tx, order, accepted >>

\* ---------------------------------------------------------------- jobs
\* EncodingJob::new: a fresh job is Queued, with no stats, error or timestamps.
\* Option values are kept as "None"/"Some": the claims only depend on presence.
NewJob(id) ==
    [ id |-> id, status |-> "Queued", stats |-> "None", error_message |-> "None",
      started_at |-> "None", finished_at |-> "None" ]

NoJob == NewJob(None)

mark_started(job) ==
    [ job EXCEPT !.status = "Running", !.started_at = "Some", !.stats = "Some" ]

mark_completed(job) ==
    [ job EXCEPT !.status = "Completed", !.finished_at = "Some" ]

mark_failed(job) ==
    [ job EXCEPT !.status = "Failed", !.error_message = "Some", !.finished_at = "Some" ]

mark_cancelled(job) ==
    [ job EXCEPT !.status = "Cancelled", !.finished_at = "Some" ]

\* ---------------------------------------------------------------- helpers
Ids(s) == { s[i].id : i \in 1..Len(s) }

IdSeq(s) == [ i \in 1..Len(s) |-> s[i].id ]

\* iter().position(pred), given the indices that satisfy pred: the first of them,
\* 0 when there is none
Position(indices) ==
    IF indices = {} THEN 0
    ELSE CHOOSE i \in indices : \A k \in indices : i <= k

\* VecDeque::remove(pos) / Vec::remove(pos)
RemoveAt(s, pos) == SubSeq(s, 1, pos - 1) \o SubSeq(s, pos + 1, Len(s))

SeqWithout(s, id) == SelectSeq(s, LAMBDA x : x # id)

\* HashMap::insert / HashMap::remove on a function
MapInsert(m, k, v) == [ x \in DOMAIN m \cup {k} |-> IF x = k THEN v ELSE m[x] ]

MapRemove(m, k) == [ x \in DOMAIN m \ {k} |-> m[x] ]

EmptyMap == [ x \in {} |-> NoJob ]

\* ---------------------------------------------------------------- locks
\* tokio::sync::RwLock: many readers or one writer.  `locks` records only the
\* guards that stay alive across a later await.
LockNames == { "queue", "active", "history" }

FreeLocks == [ l \in LockNames |-> [ w |-> None, r |-> {} ] ]

CanRead(l, t) == locks[l].w \in { None, t }

CanWrite(l, t) == locks[l].w \in { None, t } /\ locks[l].r \subseteq { t }

HoldWrite(l, t) == [ locks EXCEPT ![l].w = t ]

HoldRead(l, t) == [ locks EXCEPT ![l].r = @ \cup { t } ]

ReleaseAll(t) ==
    [ l \in LockNames |->
        [ w |-> IF locks[l].w = t THEN None ELSE locks[l].w,
          r |-> locks[l].r \ { t } ] ]

\* ---------------------------------------------------------------- threads
SaverId == NumClients + 1

\* the connections: those of Clients send every kind of frame, one more connection
\* sends no request that goes to the store
Conns == 1..(NumClients + 1)

\* a message on a connection (IpcMessage): a Request, a Response or an Event
Message(kind, id, payload, job_id) ==
    [ kind |-> kind, id |-> id, payload |-> payload, job_id |-> job_id ]

NoMessage == Message("none", None, "none", None)

\* a connection that has not been accepted: state of handle_client (pc), frames the
\* client has written and the server has not read (inbox), the request being
\* handled (request) and its answer (response), messages written to the client
\* (out), requests the client has sent (sent), the receiver's position in the
\* broadcast channel (next) and the positions a Lagged error made it skip
NoConn ==
    [ pc |-> "none", inbox |-> << >>, request |-> NoMessage,
      response |-> [ payload |-> "none", job_id |-> None ],
      out |-> << >>, sent |-> 0, next |-> 1, skipped |-> {} ]

IdleClient ==
    [ pc |-> "idle", id |-> None, job |-> NoJob,
      saw_active |-> FALSE, ret |-> "none" ]

IdleStarter == [ pc |-> "notified", job |-> NoJob ]

IdleTask == [ pc |-> "none", result |-> "none", job |-> NoJob ]

EmptySnapshot == [ queue |-> << >>, active |-> << >>, history |-> << >> ]

IdleSaver == [ pc |-> "idle", state |-> EmptySnapshot ]

\* main() after the tasks are spawned: it waits for the shutdown signal, the
\* socket file exists, wait_active_jobs has not polled; load_error is the error
\* of load_state that main.rs line 100 logs
RunningMain ==
    [ pc |-> "running", socket |-> TRUE, polls |-> 0, state |-> EmptySnapshot,
      steps |-> << >>, load_error |-> FALSE ]

\* Option<u64>, Option<Duration>: None and Some(v)
NoValue == << >>

Some(v) == << v >>

\* StatsParser::new(None, None): EncodingStats::default() (durations in seconds;
\* `updated` tells whether the last call of the parser ran update())
DefaultStats ==
    [ frame |-> 0, total_frames |-> NoValue, fps |-> 0, time_encoded |-> 0,
      total_duration |-> NoValue, progress_percent |-> 0, eta |-> NoValue,
      updated |-> FALSE ]

\* a file: whether it exists, the snapshot whose JSON it holds, and how much of
\* that JSON has reached it ("none", "part" or "all")
NoFile == [ exists |-> FALSE, state |-> EmptySnapshot, bytes |-> "none" ]

FileOf(state, bytes) == [ exists |-> TRUE, state |-> state, bytes |-> bytes ]

\* ids that some part of the daemon still refers to; Uuid::new_v4() is none of them
UsedIds ==
    Ids(queue) \cup DOMAIN active \cup Ids(history)
    \cup { starter.job.id }
    \cup { i \in JobIds : tasks[i].pc # "none" }
    \cup { clients[c].job.id : c \in Clients }
    \cup Ids(saver.state.queue) \cup Ids(saver.state.active) \cup Ids(saver.state.history)
    \cup Ids(disk.state_file.state.queue) \cup Ids(disk.state_file.state.active)
    \cup Ids(disk.state_file.state.history)

FreshIds == JobIds \ UsedIds

\* the ids a CancelJob or RetryJob request may carry: the ids the daemon knows, and
\* one id it does not know (all unknown ids behave alike)
RequestIds ==
    (UsedIds \cap JobIds) \cup { i \in FreshIds : \A k \in FreshIds : i <= k }

\* event_tx.send(QueueEvent): the event goes into the unbounded channel that the
\* forwarding task of run_with_listener reads
Emit(id, ev) ==
    /\ last_event' = [ last_event EXCEPT ![id] = ev ]
    /\ event_tx' = IF event_tx.rx
                   THEN [ event_tx EXCEPT !.q = Append(@, [ event |-> ev, job_id |-> id ]) ]
                   ELSE event_tx

\* tokio::sync::Notify::notify_one, as the permit left for notified(): the task
\* waiting in notified() is woken, and without one the permit is stored
\* (notify_waiters would store none)
notify_waiters(permit, waiter) == permit \/ waiter = "wait"

notify_one(permit, waiter) == TRUE

\* the value handle_request builds from what the store's method returned; it is
\* kept by handle_client (when the call came through a connection) for writer.send
Respond(c, payload, id) ==
    conn' = IF conn[c].pc = "handle"
            THEN [ conn EXCEPT ![c].pc = "respond",
                               ![c].response = [ payload |-> payload, job_id |-> id ] ]
            ELSE conn

\* the method returns r
Return(c, r) ==
    /\ clients' = [ clients EXCEPT ![c] = [ IdleClient EXCEPT !.ret = r ] ]
    /\ Respond(c, r, None)

\* add_job returns Ok(job_id)
ReturnJobId(c, id) ==
    /\ clients' = [ clients EXCEPT ![c] = [ IdleClient EXCEPT !.ret = "ok" ] ]
    /\ Respond(c, "JobId", id)

\* the method goes on to its next await
Continue(c, handler) ==
    /\ clients' = [ clients EXCEPT ![c] = handler ]
    /\ UNCHANGED conn

\* ---------------------------------------------------------------- add_job
\* line 105: if !*self.accepting_jobs.read().await { bail }
add_job_refused_never(accepting) == FALSE

add_job_refused(accepting) == ~accepting

\* lines 105-110: read the admission gate, set the status, remember the id
add_job_gate(c) ==
    /\ clients[c].pc = "idle"
    /\ events < MaxEvents
    /\ events' = events + 1
    /\ FreshIds # {}
    /\ LET id == CHOOSE i \in FreshIds : \A k \in FreshIds : i <= k
       IN  IF add_job_refused(accepting_jobs)
           THEN Return(c, "not_accepting")
           ELSE Continue(c, [ IdleClient EXCEPT !.pc = "add_push", !.id = id,
                                !.job = [ NewJob(id) EXCEPT !.status = "Queued" ] ])
    /\ UNCHANGED << queue, active, history, active_controls, cancel_rx, accepting_jobs,
                    start_notify, locks, starter, tasks, saver, last_event, event_tx, disk,
                     order, accepted, save_call, pipe, others, bcast >>

\* lines 112-120: push_back under the queue write lock, JobAdded, notify_one
add_job_push(c) ==
    /\ clients[c].pc = "add_push"
    /\ CanWrite("queue", c)
    /\ queue' = Append(queue, clients[c].job)
    /\ Emit(clients[c].id, "JobAdded")
    /\ start_notify' = notify_one(start_notify, starter.pc)
    /\ order' = Append(order, clients[c].id)
    /\ accepted' = accepted \cup { clients[c].id }
    /\ ReturnJobId(c, clients[c].id)
    /\ UNCHANGED << active, history, active_controls, cancel_rx, accepting_jobs,
                    locks, starter, tasks, saver, disk, events, save_call, pipe, others, bcast >>

\* ---------------------------------------------------------------- cancel_job
\* line 126: the active read guard is a temporary of the `if` condition
cancel_job_active(c, id) ==
    /\ clients[c].pc = "idle"
    /\ events < MaxEvents
    /\ events' = events + 1
    /\ CanRead("active", c)
    /\ Continue(c, [ IdleClient EXCEPT !.id = id,
                        !.saw_active = (id \in DOMAIN active),
                        !.pc = IF id \in DOMAIN active
                               THEN "cancel_controls" ELSE "cancel_queue" ])
    /\ UNCHANGED << queue, active, history, active_controls, cancel_rx, accepting_jobs,
                    start_notify, locks, starter, tasks, saver, last_event, event_tx, disk,
                     order, accepted, save_call, pipe, others, bcast >>

\* lines 128-134: under the controls mutex, send on cancel_tx when a control exists
\* (the send fails silently once encode_job has dropped the receiver); without a
\* control the function falls through to the queue search
cancel_job_controls(c) ==
    /\ clients[c].pc = "cancel_controls"
    /\ IF clients[c].id \in active_controls
       THEN /\ cancel_rx' = [ cancel_rx EXCEPT ![clients[c].id] =
                                 (tasks[clients[c].id].pc = "encode") ]
            /\ Return(c, "ok")
       ELSE /\ Continue(c, [ clients[c] EXCEPT !.pc = "cancel_queue" ])
            /\ UNCHANGED cancel_rx
    /\ UNCHANGED << queue, active, history, active_controls, accepting_jobs,
                    start_notify, locks, starter, tasks, saver, last_event, event_tx, disk,
                    events, order, accepted, save_call, pipe, others, bcast >>

\* line 138: queue.iter().position(|j| j.id == job_id)
cancel_position_first(q, id) ==
    Position({ i \in 1..Len(q) : TRUE })

cancel_position(q, id) ==
    Position({ i \in 1..Len(q) : q[i].id = id })

\* lines 137-140 and 149: the queue write guard lives until the function returns
cancel_job_queue(c) ==
    /\ clients[c].pc = "cancel_queue"
    /\ CanWrite("queue", c)
    /\ LET pos == cancel_position(queue, clients[c].id)
       IN  IF pos # 0
           THEN /\ queue' = RemoveAt(queue, pos)
                /\ Continue(c, [ clients[c] EXCEPT !.pc = "cancel_history",
                                                   !.job = mark_cancelled(queue[pos]) ])
                /\ locks' = HoldWrite("queue", c)
                /\ order' = SeqWithout(order, clients[c].id)
           ELSE /\ Return(c, "not_found")
                /\ UNCHANGED << queue, locks, order >>
    /\ UNCHANGED << active, history, active_controls, cancel_rx, accepting_jobs,
                    start_notify, starter, tasks, saver, last_event, event_tx, disk,
                    events, accepted, save_call, pipe, others, bcast >>

\* lines 142-146: push to history while still holding the queue write guard
cancel_job_history(c) ==
    /\ clients[c].pc = "cancel_history"
    /\ CanWrite("history", c)
    /\ history' = Append(history, clients[c].job)
    /\ Emit(clients[c].id, "JobCancelled")
    /\ locks' = ReleaseAll(c)
    /\ Return(c, "ok")
    /\ UNCHANGED << queue, active, active_controls, cancel_rx, accepting_jobs,
                    start_notify, starter, tasks, saver, disk, events, order,
                    accepted, save_call, pipe, others, bcast >>

\* ---------------------------------------------------------------- retry_job
\* lines 156-158: position(|j| j.id == job_id && j.status == JobStatus::Failed)
retry_position_any_status(h, id) ==
    Position({ i \in 1..Len(h) : h[i].id = id })

retry_position(h, id) ==
    Position({ i \in 1..Len(h) : h[i].id = id /\ h[i].status = "Failed" })

\* lines 154-165 and 176: the history write guard lives until the function returns
retry_job_history(c, id) ==
    /\ clients[c].pc = "idle"
    /\ events < MaxEvents
    /\ events' = events + 1
    /\ CanWrite("history", c)
    /\ LET pos == retry_position(history, id)
       IN  IF pos # 0
           THEN /\ history' = RemoveAt(history, pos)
                /\ Continue(c, [ IdleClient EXCEPT !.pc = "retry_queue",
                            !.id = id,
                            !.job = [ history[pos] EXCEPT !.status = "Queued",
                                        !.error_message = "None", !.stats = "None",
                                        !.started_at = "None", !.finished_at = "None" ] ])
                /\ locks' = HoldWrite("history", c)
           ELSE /\ Return(c, "not_failed")
                /\ UNCHANGED << history, locks >>
    /\ UNCHANGED << queue, active, active_controls, cancel_rx, accepting_jobs,
                    start_notify, starter, tasks, saver, last_event, event_tx, disk,
                     order, accepted, save_call, pipe, others, bcast >>

\* lines 167-173: push_back while still holding the history write guard
retry_job_queue(c) ==
    /\ clients[c].pc = "retry_queue"
    /\ CanWrite("queue", c)
    /\ queue' = Append(queue, clients[c].job)
    /\ Emit(clients[c].id, "JobAdded")
    /\ start_notify' = notify_one(start_notify, starter.pc)
    /\ order' = Append(order, clients[c].id)
    /\ locks' = ReleaseAll(c)
    /\ Return(c, "ok")
    /\ UNCHANGED << active, history, active_controls, cancel_rx, accepting_jobs,
                    starter, tasks, saver, disk, events, accepted, save_call, pipe, others, bcast >>

\* ---------------------------------------------------------------- clear_history
\* Vec::clear
clear_keeps(v) == v

clear(v) == << >>

\* lines 195-199
clear_history(c) ==
    /\ clients[c].pc = "idle"
    /\ events < MaxEvents
    /\ events' = events + 1
    /\ CanWrite("history", c)
    /\ history' = clear(history)
    /\ accepted' = accepted \ Ids(history)
    /\ Return(c, "ok")
    /\ UNCHANGED << queue, active, active_controls, cancel_rx, accepting_jobs,
                    start_notify, locks, starter, tasks, saver, last_event, event_tx, disk,
                     order, save_call, pipe, others, bcast >>

\* ---------------------------------------------------------------- GetStats
\* server.rs lines 260-266: the answer of GetStats for the result of get_job
get_stats(found, job) ==
    IF ~found THEN "job_not_found"
    ELSE IF job.stats # "None" THEN "stats" ELSE "no_stats"

\* get_job line 204: look in the queue; the read guard ends with the `if let`
get_job_queue(c, id) ==
    /\ clients[c].pc = "idle"
    /\ events < MaxEvents
    /\ events' = events + 1
    /\ CanRead("queue", c)
    /\ LET pos == Position({ i \in 1..Len(queue) : queue[i].id = id })
       IN  IF pos # 0
           THEN Return(c, get_stats(TRUE, queue[pos]))
           ELSE Continue(c, [ IdleClient EXCEPT !.pc = "get_active", !.id = id ])
    /\ UNCHANGED << queue, active, history, active_controls, cancel_rx, accepting_jobs,
                    start_notify, locks, starter, tasks, saver, last_event, event_tx, disk,
                    order, accepted, save_call, pipe, others, bcast >>

\* get_job line 209: look in the active set
get_job_active(c) ==
    /\ clients[c].pc = "get_active"
    /\ CanRead("active", c)
    /\ IF clients[c].id \in DOMAIN active
       THEN Return(c, get_stats(TRUE, active[clients[c].id]))
       ELSE Continue(c, [ clients[c] EXCEPT !.pc = "get_history" ])
    /\ UNCHANGED << queue, active, history, active_controls, cancel_rx, accepting_jobs,
                    start_notify, locks, starter, tasks, saver, last_event, event_tx, disk, events,
                    order, accepted, save_call, pipe, others, bcast >>

\* get_job lines 214-218: look in the history, else None
get_job_history(c) ==
    /\ clients[c].pc = "get_history"
    /\ CanRead("history", c)
    /\ LET pos == Position({ i \in 1..Len(history) : history[i].id = clients[c].id })
       IN  IF pos # 0
           THEN Return(c, get_stats(TRUE, history[pos]))
           ELSE Return(c, get_stats(FALSE, NoJob))
    /\ UNCHANGED << queue, active, history, active_controls, cancel_rx, accepting_jobs,
                    start_notify, locks, starter, tasks, saver, last_event, event_tx, disk, events,
                    order, accepted, save_call, pipe, others, bcast >>

\* ---------------------------------------------------------------- stop_accepting_jobs
stop_accepting_jobs ==
    /\ accepting_jobs
    /\ accepting_jobs' = FALSE
    /\ UNCHANGED << queue, active, history, active_controls, cancel_rx,
                    start_notify, locks, starter, tasks, clients, saver, last_event, event_tx,
                    disk, events, order, accepted, save_call, pipe, others, bcast, conn >>

\* ---------------------------------------------------------------- run_job_starter
\* line 225: notified() is polled with no permit stored: the task becomes the
\* waiter of the Notify
starter_pending ==
    /\ starter.pc = "notified"
    /\ ~start_notify
    /\ starter' = [ starter EXCEPT !.pc = "wait" ]
    /\ UNCHANGED << queue, active, history, active_controls, cancel_rx, accepting_jobs,
                    start_notify, locks, tasks, clients, saver, last_event, event_tx, disk,
                    events, order, accepted, save_call, pipe, others, bcast, conn >>

\* line 225: notified().await consumes the permit
starter_notified ==
    /\ starter.pc \in { "notified", "wait" }
    /\ start_notify
    /\ start_notify' = FALSE
    /\ starter' = [ starter EXCEPT !.pc = "count" ]
    /\ UNCHANGED << queue, active, history, active_controls, cancel_rx, accepting_jobs,
                    locks, tasks, clients, saver, last_event, event_tx, disk, events, order,
                    accepted, save_call, pipe, others, bcast, conn >>

\* line 231: active_count >= self.max_concurrent
AtLimitOffByOne(active_count) == active_count > max_concurrent

AtLimit(active_count) == active_count >= max_concurrent

\* lines 229-233: read the active count, leave the inner loop at the limit
starter_count ==
    /\ starter.pc = "count"
    /\ CanRead("active", None)
    /\ starter' = [ starter EXCEPT !.pc =
            IF AtLimit(Cardinality(DOMAIN active)) THEN "notified" ELSE "pop" ]
    /\ UNCHANGED << queue, active, history, active_controls, cancel_rx, accepting_jobs,
                    start_notify, locks, tasks, clients, saver, last_event, event_tx, disk,
                    events, order, accepted, save_call, pipe, others, bcast, conn >>

\* VecDeque::pop_front on a non-empty queue: the job taken and the queue left
pop_back(q) == [ job |-> q[Len(q)], rest |-> SubSeq(q, 1, Len(q) - 1) ]

pop_front(q) == [ job |-> Head(q), rest |-> Tail(q) ]

\* lines 235-244: pop_front under the queue write lock, which is dropped at once
starter_pop ==
    /\ starter.pc = "pop"
    /\ CanWrite("queue", None)
    /\ IF queue # << >>
       THEN /\ queue' = pop_front(queue).rest
            /\ starter' = [ pc |-> "start", job |-> pop_front(queue).job ]
       ELSE /\ starter' = [ starter EXCEPT !.pc = "notified" ]
            /\ UNCHANGED queue
    /\ UNCHANGED << active, history, active_controls, cancel_rx, accepting_jobs,
                    start_notify, locks, tasks, clients, saver, last_event, event_tx, disk,
                    events, order, accepted, save_call, pipe, others, bcast, conn >>

\* start_job lines 251-257: mark_started, insert into active, JobStarted
start_job_insert ==
    /\ starter.pc = "start"
    /\ CanWrite("active", None)
    /\ LET job == mark_started(starter.job)
       IN  /\ active' = MapInsert(active, job.id, job)
           /\ starter' = [ pc |-> "controls", job |-> job ]
           /\ Emit(job.id, "JobStarted")
           /\ order' = SeqWithout(order, job.id)
    /\ UNCHANGED << queue, history, active_controls, cancel_rx, accepting_jobs,
                    start_notify, locks, tasks, clients, saver, disk, events,
                    accepted, save_call, pipe, others, bcast, conn >>

\* start_job lines 260-322: create the channels, register the control under the
\* mutex, spawn the task that runs the pipeline
start_job_spawn ==
    /\ starter.pc = "controls"
    /\ active_controls' = active_controls \cup { starter.job.id }
    /\ cancel_rx' = [ cancel_rx EXCEPT ![starter.job.id] = FALSE ]
    /\ tasks' = [ tasks EXCEPT ![starter.job.id] =
                    [ pc |-> "encode", result |-> "none", job |-> starter.job ] ]
    /\ starter' = [ pc |-> "count", job |-> NoJob ]
    /\ UNCHANGED << queue, active, history, accepting_jobs, start_notify, locks,
                    clients, saver, last_event, event_tx, disk, events, order, accepted, save_call, pipe, others, bcast, conn >>

\* ---------------------------------------------------------------- the spawned task
\* line 294: encode_job returns Ok, a process error, or the error of the cancel
\* branch of encode_video (only when a cancel message is in the channel); the
\* receiver is dropped with the call
task_encode(id) ==
    /\ tasks[id].pc = "encode"
    /\ \E result \in { "ok", "error" } \cup
                     ( IF cancel_rx[id] THEN { "cancelled" } ELSE {} ) :
          tasks' = [ tasks EXCEPT ![id].pc = "controls", ![id].result = result ]
    /\ cancel_rx' = [ cancel_rx EXCEPT ![id] = FALSE ]
    /\ UNCHANGED << queue, active, history, active_controls, accepting_jobs,
                    start_notify, locks, starter, clients, saver, last_event, event_tx, disk,
                    events, order, accepted, save_call, pipe, others, bcast, conn >>

\* line 297: remove the control
task_controls_kept(id) ==
    /\ tasks[id].pc = "controls"
    /\ tasks' = [ tasks EXCEPT ![id].pc = "remove" ]
    /\ UNCHANGED << queue, active, history, active_controls, cancel_rx, accepting_jobs,
                    start_notify, locks, starter, clients, saver, last_event, event_tx, disk,
                    events, order, accepted, save_call, pipe, others, bcast, conn >>

task_controls(id) ==
    /\ tasks[id].pc = "controls"
    /\ active_controls' = active_controls \ { id }
    /\ tasks' = [ tasks EXCEPT ![id].pc = "remove" ]
    /\ UNCHANGED << queue, active, history, cancel_rx, accepting_jobs,
                    start_notify, locks, starter, clients, saver, last_event, event_tx, disk,
                    events, order, accepted, save_call, pipe, others, bcast, conn >>

\* the match of lines 303-315: Ok is completed, every Err is failed
ResultJobUnmarked(job, result) == job

ResultJob(job, result) ==
    IF result = "ok" THEN mark_completed(job) ELSE mark_failed(job)

ResultEvent(result) ==
    IF result = "ok" THEN "JobCompleted" ELSE "JobFailed"

\* lines 300-315: remove from active, set the terminal status, send the event
task_remove(id) ==
    /\ tasks[id].pc = "remove"
    /\ CanWrite("active", None)
    /\ id \in DOMAIN active
    /\ active' = MapRemove(active, id)
    /\ tasks' = [ tasks EXCEPT ![id].pc = "push",
                               ![id].job = ResultJob(active[id], tasks[id].result) ]
    /\ Emit(id, ResultEvent(tasks[id].result))
    /\ UNCHANGED << queue, history, active_controls, cancel_rx, accepting_jobs,
                    start_notify, locks, starter, clients, saver, disk, events,
                    order, accepted, save_call, pipe, others, bcast, conn >>

\* lines 318-321: push to history, notify the starter
task_push(id) ==
    /\ tasks[id].pc = "push"
    /\ CanWrite("history", None)
    /\ history' = Append(history, tasks[id].job)
    /\ start_notify' = notify_one(start_notify, starter.pc)
    /\ tasks' = [ tasks EXCEPT ![id] = IdleTask ]
    /\ UNCHANGED << queue, active, active_controls, cancel_rx, accepting_jobs,
                    locks, starter, clients, saver, last_event, event_tx, disk, events,
                    order, accepted, save_call, pipe, others, bcast, conn >>

\* ---------------------------------------------------------------- save_state
\* lines 94-98: the three read guards are temporaries of one `let` statement, so
\* each is still held while the next one is awaited
save_state_queue ==
    /\ saver.pc = "idle"
    /\ events < MaxEvents
    /\ events' = events + 1
    /\ CanRead("queue", SaverId)
    /\ saver' = [ pc |-> "active", state |-> [ EmptySnapshot EXCEPT !.queue = queue ] ]
    /\ locks' = HoldRead("queue", SaverId)
    /\ UNCHANGED << queue, active, history, active_controls, cancel_rx, accepting_jobs,
                    start_notify, starter, tasks, clients, last_event, event_tx, disk, 
                    order, accepted, save_call, pipe, others, bcast, conn >>

\* every enumeration order of HashMap::values()
ValueSeqs(m) ==
    { s \in [ 1..Cardinality(DOMAIN m) -> { m[k] : k \in DOMAIN m } ] :
        \A i, k \in DOMAIN s : i # k => s[i] # s[k] }

save_state_active ==
    /\ saver.pc = "active"
    /\ CanRead("active", SaverId)
    /\ \E vals \in ValueSeqs(active) :
          saver' = [ saver EXCEPT !.pc = "history", !.state.active = vals ]
    /\ locks' = HoldRead("active", SaverId)
    /\ UNCHANGED << queue, active, history, active_controls, cancel_rx, accepting_jobs,
                    start_notify, starter, tasks, clients, last_event, event_tx, disk, events,
                    order, accepted, save_call, pipe, others, bcast, conn >>

save_state_history ==
    /\ saver.pc = "history"
    /\ CanRead("history", SaverId)
    /\ saver' = [ saver EXCEPT !.pc = "save", !.state.history = history ]
    /\ locks' = ReleaseAll(SaverId)
    /\ UNCHANGED << queue, active, history, active_controls, cancel_rx, accepting_jobs,
                    start_notify, starter, tasks, clients, last_event, event_tx, disk, events,
                    order, accepted, save_call, pipe, others, bcast, conn >>

\* line 100: persistence.save(&state), as one step: the rename has happened
save_state_persist ==
    /\ saver.pc = "save"
    /\ disk' = [ disk EXCEPT !.state_file = FileOf(saver.state, "all") ]
    /\ save_call' = [ prev |-> disk.state_file, new |-> saver.state ]
    /\ saver' = IdleSaver
    /\ UNCHANGED << queue, active, history, active_controls, cancel_rx, accepting_jobs,
                    start_notify, locks, starter, tasks, clients, last_event, event_tx, events,
                    order, accepted, pipe, others, bcast, conn >>

\* ---------------------------------------------------------------- load_state
\* Persistence::load: a missing file is the default state, a file that does not
\* parse is an error
load_whatever_parses(file) ==
    IF ~file.exists THEN [ ok |-> TRUE, state |-> EmptySnapshot ]
    ELSE [ ok |-> TRUE, state |-> file.state ]

load(file) ==
    IF ~file.exists THEN [ ok |-> TRUE, state |-> EmptySnapshot ]
    ELSE IF file.bytes = "all" THEN [ ok |-> TRUE, state |-> file.state ]
    ELSE [ ok |-> FALSE, state |-> EmptySnapshot ]

\* the loop of lines 80-84
Demote(job) == [ job EXCEPT !.status = "Queued", !.stats = "None" ]

DemoteAll(s) == [ i \in 1..Len(s) |-> Demote(s[i]) ]

\* load_state on a new QueueManager; on a load error main.rs logs and goes on
load_state_queue(file) ==
    IF load(file).ok
    THEN load(file).state.queue \o DemoteAll(load(file).state.active)
    ELSE << >>

load_state_history(file) ==
    IF load(file).ok THEN load(file).state.history ELSE << >>

\* the daemon stops (at any point) and main() runs again: QueueManager::new,
\* load_state, then the tasks are spawned
Restart ==
    /\ events < MaxEvents
    /\ events' = events + 1
    /\ queue' = load_state_queue(disk.state_file)
    /\ history' = load_state_history(disk.state_file)
    /\ active' = EmptyMap
    /\ active_controls' = {}
    /\ cancel_rx' = [ i \in JobIds |-> FALSE ]
    /\ accepting_jobs' = TRUE
    /\ start_notify' = FALSE
    /\ locks' = FreeLocks
    /\ starter' = IdleStarter
    /\ tasks' = [ i \in JobIds |-> IdleTask ]
    /\ clients' = [ c \in Clients |-> IdleClient ]
    /\ saver' = IdleSaver
    /\ last_event' = [ i \in JobIds |-> "None" ]
    /\ event_tx' = [ event_tx EXCEPT !.q = << >> ]
    /\ order' = IdSeq(queue')
    /\ accepted' = Ids(queue') \cup Ids(history')
    /\ bcast' = << >>
    /\ conn' = [ c \in Conns |-> NoConn ]
    /\ main' = [ RunningMain EXCEPT !.load_error = ~load(disk.state_file).ok ]
    /\ stats_rx' = [ i \in JobIds |-> 0 ]
    /\ UNCHANGED << disk, save_call, pipe, parser, calls >>

\* ---------------------------------------------------------------- StatsParser
\* The f64 values are kept as integers: the lines and totals below are chosen so
\* that every quotient the code computes is a whole number.

\* stats.rs lines 42-54
calculate_progress(stats) ==
    IF stats.total_frames # NoValue
    THEN ( IF stats.total_frames[1] > 0
           THEN [ stats EXCEPT !.progress_percent =
                                  ( stats.frame * 100 ) \div stats.total_frames[1] ]
           ELSE stats )
    ELSE IF stats.total_duration # NoValue
    THEN ( IF stats.total_duration[1] > 0
           THEN [ stats EXCEPT !.progress_percent =
                                  ( stats.time_encoded * 100 ) \div stats.total_duration[1] ]
           ELSE stats )
    ELSE stats

\* u64::saturating_sub
saturating_sub(a, b) == IF a > b THEN a - b ELSE 0

\* stats.rs lines 57-65
calculate_eta(stats) ==
    IF stats.total_frames # NoValue /\ stats.fps > 0
    THEN [ stats EXCEPT !.eta =
              Some(saturating_sub(stats.total_frames[1], stats.frame) \div stats.fps) ]
    ELSE stats

\* stats.rs lines 68-71
update(stats) == [ calculate_eta(calculate_progress(stats)) EXCEPT !.updated = TRUE ]

\* a line of text, as what the parser's tests on it give: `eq` is whether it
\* holds a '=' (and then `key` and `value` are the two sides of the first one,
\* `number` being value.parse() with NoValue for Err), `encoder` is the
\* captures of ENCODER_REGEX (frame, fps) or NoValue
Line(eq, key, value, number, encoder) ==
    [ eq |-> eq, key |-> key, value |-> value, number |-> number, encoder |-> encoder ]

FrameValues == { 500, 1000, 2000 }

FpsValues == { 0, 25 }

OutTimeValues == { 20, 40 }

\* the lines of `ffmpeg -progress`: key=value
ProgressLines ==
    { Line(TRUE, "frame", "digits", Some(n), NoValue) : n \in FrameValues }
    \cup { Line(TRUE, "fps", "digits", Some(n), NoValue) : n \in FpsValues }
    \cup { Line(TRUE, "out_time", "hh:mm:ss.cc", Some(n), NoValue) : n \in OutTimeValues }
    \cup { Line(TRUE, "progress", v, NoValue, NoValue) : v \in { "continue", "end" } }
    \cup { Line(TRUE, "speed", "1.0x", NoValue, NoValue) }

\* the lines of the classic format, "frame= 1000 fps= 25 ... time=00:00:40.00":
\* the first '=' splits them into the key "frame" and the rest of the line,
\* which is no u64
ClassicLines ==
    { Line(TRUE, "frame", "rest of the line", NoValue, NoValue) }

\* a line without any '=': none of the four regular expressions can match it
TextLines ==
    { Line(FALSE, "", "", NoValue, NoValue) }

\* the lines of SvtAv1EncApp, "Encoding frame 1000 1234.56 kbps 25 fps"
EncoderLines ==
    { Line(FALSE, "", "", NoValue, << frame, fps >>) :
        frame \in FrameValues, fps \in FpsValues }

\* parser.rs lines 33-117
parse_line(stats, line) ==
    IF line.eq
    THEN CASE line.key = "frame" /\ line.number # NoValue
                -> [ stats EXCEPT !.frame = line.number[1], !.updated = FALSE ]
           [] line.key = "fps" /\ line.number # NoValue
                -> [ stats EXCEPT !.fps = line.number[1], !.updated = FALSE ]
           [] line.key = "out_time" /\ line.number # NoValue
                -> [ stats EXCEPT !.time_encoded = line.number[1], !.updated = FALSE ]
           [] line.key = "progress" /\ line.value \in { "continue", "end" }
                -> update(stats)
           [] OTHER -> [ stats EXCEPT !.updated = FALSE ]
    ELSE update(stats)

\* parser.rs lines 131-145
parse_encoder_line(stats, line) ==
    IF line.encoder # NoValue
    THEN update([ stats EXCEPT !.frame = line.encoder[1], !.fps = line.encoder[2] ])
    ELSE [ stats EXCEPT !.updated = FALSE ]

parserOnly == << queue, active, history, active_controls, cancel_rx, accepting_jobs,
                 start_notify, locks, starter, tasks, clients, saver, last_event,
                 event_tx, disk, save_call, events, order, accepted, pipe, bcast,
                 conn, main, stats_rx, calls >>

\* one call of parse_line
ParseLine ==
    /\ \E line \in ProgressLines \cup ClassicLines \cup TextLines :
          parser' = parse_line(parser, line)
    /\ UNCHANGED parserOnly

\* one call of parse_encoder_line
ParseEncoderLine ==
    /\ \E line \in EncoderLines \cup ProgressLines :
          parser' = parse_encoder_line(parser, line)
    /\ UNCHANGED parserOnly

\* StatsParser::new(total_frames, total_duration), lines 23-30
\* ---------------------------------------------------------------- shutdown
\* wait_active_jobs(Duration::from_secs(30)) sleeps 500 ms between two looks at the
\* active set: the number of sleeps that fit in the timeout (60 in main.rs, fewer
\* here)
GracePolls == 1

MainId == NumClients + 2

\* main.rs lines 180-217, as the place main() goes to after each step: the
\* signal, stop_accepting_jobs, wait_active_jobs, save_state, the socket, return
shutdown_sequence_cleanup_first(pc) ==
    CASE pc = "running"      -> "stop"
      [] pc = "stop"         -> "wait"
      [] pc = "wait"         -> "cleanup"
      [] pc = "cleanup"      -> "save"
      [] pc = "save_persist" -> "done"

shutdown_sequence(pc) ==
    CASE pc = "running"      -> "stop"
      [] pc = "stop"         -> "wait"
      [] pc = "wait"         -> "save"
      [] pc = "save_persist" -> "cleanup"
      [] pc = "cleanup"      -> "done"

mainStoreButEvents ==
    << queue, active, history, active_controls, cancel_rx, start_notify,
       starter, tasks, clients, saver, last_event, event_tx, order,
       accepted, pipe, bcast, conn, parser, stats_rx, calls >>

mainStore == << mainStoreButEvents, events >>

\* lines 180-187: ctrl_c() (or the end of the IPC task) ends the select; the
\* signal is one of the events of the environment
shutdown_signal ==
    /\ main.pc = "running"
    /\ events < MaxEvents
    /\ events' = events + 1
    /\ main' = [ main EXCEPT !.pc = shutdown_sequence("running") ]
    /\ UNCHANGED << mainStoreButEvents, accepting_jobs, locks, disk, save_call >>

\* line 190: queue_manager.stop_accepting_jobs()
main_stop_accepting_jobs ==
    /\ main.pc = "stop"
    /\ accepting_jobs' = FALSE
    /\ main' = [ main EXCEPT !.pc = shutdown_sequence("stop"),
                             !.steps = Append(@, "stop_accepting_jobs") ]
    /\ UNCHANGED << mainStore, locks, disk, save_call >>

\* tokio's RwLock hands out its guards in the order of the requests: while read
\* guards are held and a task waits in active.write().await (start_job line 254,
\* the completion of a job line 300), a later active.read().await waits behind
\* that writer
QueuedWriter ==
    /\ locks["active"].r # {}
    /\ \/ starter.pc = "start"
       \/ \E id \in JobIds : tasks[id].pc = "remove"

\* manager.rs lines 335-348: one turn of the loop of wait_active_jobs: it returns
\* when the active set is empty or the timeout has passed, and sleeps otherwise;
\* the timeout is looked at after active.read().await has returned
wait_active_jobs ==
    /\ main.pc = "wait"
    /\ CanRead("active", None)
    /\ ~QueuedWriter
    /\ IF DOMAIN active = {} \/ main.polls > GracePolls
       THEN main' = [ main EXCEPT !.pc = shutdown_sequence("wait"),
                                  !.steps = Append(@, "wait_active_jobs") ]
       ELSE main' = [ main EXCEPT !.polls = @ + 1 ]
    /\ UNCHANGED << mainStore, accepting_jobs, locks, disk, save_call >>

\* line 200: save_state called by main(); manager.rs lines 94-98, the three read
\* guards being held until the snapshot is built
main_save_queue ==
    /\ main.pc = "save"
    /\ CanRead("queue", MainId)
    /\ main' = [ main EXCEPT !.pc = "save_active",
                             !.state = [ EmptySnapshot EXCEPT !.queue = queue ] ]
    /\ locks' = HoldRead("queue", MainId)
    /\ UNCHANGED << mainStore, accepting_jobs, disk, save_call >>

main_save_active ==
    /\ main.pc = "save_active"
    /\ CanRead("active", MainId)
    /\ \E vals \in ValueSeqs(active) :
          main' = [ main EXCEPT !.pc = "save_history", !.state.active = vals ]
    /\ locks' = HoldRead("active", MainId)
    /\ UNCHANGED << mainStore, accepting_jobs, disk, save_call >>

main_save_history ==
    /\ main.pc = "save_history"
    /\ CanRead("history", MainId)
    /\ main' = [ main EXCEPT !.pc = "save_persist", !.state.history = history ]
    /\ locks' = ReleaseAll(MainId)
    /\ UNCHANGED << mainStore, accepting_jobs, disk, save_call >>

\* manager.rs line 100 and main.rs lines 200-202: persistence.save writes the
\* file, or fails, which main() only logs
main_save_persist ==
    /\ main.pc = "save_persist"
    /\ \E ok \in BOOLEAN :
          /\ disk' = IF ok THEN [ disk EXCEPT !.state_file = FileOf(main.state, "all") ]
                     ELSE disk
          /\ save_call' = IF ok THEN [ prev |-> disk.state_file, new |-> main.state ]
                          ELSE save_call
    /\ main' = [ main EXCEPT !.pc = shutdown_sequence("save_persist"),
                             !.steps = Append(@, "save_state") ]
    /\ UNCHANGED << mainStore, accepting_jobs, locks >>

\* lines 205-210: remove the socket file
main_remove_socket ==
    /\ main.pc = "cleanup"
    /\ main' = [ main EXCEPT !.pc = shutdown_sequence("cleanup"), !.socket = FALSE,
                             !.steps = Append(@, "remove_socket") ]
    /\ UNCHANGED << mainStore, accepting_jobs, locks, disk, save_call >>

\* server.rs lines 280-284: a Shutdown request is logged and answered Ok; the
\* handler has no channel to main() and changes nothing
handle_request_shutdown(c) ==
    /\ clients[c].pc = "idle"
    /\ events < MaxEvents
    /\ events' = events + 1
    /\ Return(c, "shutdown_ok")
    /\ UNCHANGED << queue, active, history, active_controls, cancel_rx, accepting_jobs,
                    start_notify, locks, starter, tasks, saver, last_event, event_tx, disk,
                    order, accepted, save_call, pipe, others, bcast >>

MainNext ==
    \/ shutdown_signal
    \/ main_stop_accepting_jobs
    \/ wait_active_jobs
    \/ main_save_queue
    \/ main_save_active
    \/ main_save_history
    \/ main_save_persist
    \/ main_remove_socket

\* ---------------------------------------------------------------- specification
InitStore ==
    /\ queue = << >>
    /\ active = EmptyMap
    /\ history = << >>
    /\ active_controls = {}
    /\ cancel_rx = [ i \in JobIds |-> FALSE ]
    /\ accepting_jobs = TRUE
    /\ start_notify = FALSE
    /\ locks = FreeLocks
    /\ starter = IdleStarter
    /\ tasks = [ i \in JobIds |-> IdleTask ]
    /\ clients = [ c \in Clients |-> IdleClient ]
    /\ saver = IdleSaver
    /\ last_event = [ i \in JobIds |-> "None" ]
    /\ disk = [ state_file |-> NoFile, tmp_file |-> NoFile ]
    /\ save_call = [ prev |-> NoFile, new |-> EmptySnapshot ]
    /\ events = 0
    /\ order = << >>
    /\ accepted = {}

\* ---------------------------------------------------------------- encode_video
\* One call of EncodingPipeline::encode_video.  `pc` is the async function,
\* `waiter` the closure given to spawn_blocking, `encoder` and `ffmpeg` the two
\* child processes, `enc_mutex` and `ff_mutex` the std::sync::Mutex around each
\* Child, `cancel_rx` the cancel channel.
PipeInit ==
    [ pc |-> "spawn_ffmpeg", ret |-> "none",
      waiter |-> "none", wres |-> "none",
      encoder |-> "none", ffmpeg |-> "none",
      enc_mutex |-> "free", ff_mutex |-> "free",
      cancel_rx |-> FALSE, enc_at_cancel |-> "none" ]

Exited == { "exited_ok", "exited_err" }

pipeOnly == << queue, active, history, active_controls, cancel_rx, accepting_jobs,
               start_notify, locks, starter, tasks, clients, saver, last_event, event_tx,
               disk, save_call, events, order, accepted, bcast, conn, others >>

\* lines 110-137: spawn ffmpeg; a spawn error returns at once
spawn_ffmpeg ==
    /\ pipe.pc = "spawn_ffmpeg"
    /\ \/ pipe' = [ pipe EXCEPT !.pc = "spawn_encoder", !.ffmpeg = "running" ]
       \/ pipe' = [ pipe EXCEPT !.pc = "returned", !.ret = "error" ]
    /\ UNCHANGED pipeOnly

\* lines 140-223: spawn the encoder (a spawn error returns with `?` and drops the
\* ffmpeg Child, which does not kill it), wrap both children in mutexes and start
\* the blocking closure of the select
spawn_encoder ==
    /\ pipe.pc = "spawn_encoder"
    /\ \/ pipe' = [ pipe EXCEPT !.pc = "select", !.encoder = "running",
                                 !.waiter = "lock_encoder" ]
       \/ pipe' = [ pipe EXCEPT !.pc = "returned", !.ret = "error" ]
    /\ UNCHANGED pipeOnly

\* the children end on their own
encoder_exits ==
    /\ pipe.encoder = "running"
    /\ \E st \in Exited : pipe' = [ pipe EXCEPT !.encoder = st ]
    /\ UNCHANGED pipeOnly

ffmpeg_exits ==
    /\ pipe.ffmpeg = "running"
    /\ \E st \in Exited : pipe' = [ pipe EXCEPT !.ffmpeg = st ]
    /\ UNCHANGED pipeOnly

\* cancel_job sends on cancel_tx while the call is running
cancel_sent ==
    /\ pipe.pc \in { "spawn_ffmpeg", "spawn_encoder", "select" }
    /\ ~pipe.cancel_rx
    /\ pipe' = [ pipe EXCEPT !.cancel_rx = TRUE ]
    /\ UNCHANGED pipeOnly

\* lines 242-245: encoder_child_clone.lock().unwrap().wait(): the guard is a
\* temporary of the statement, so it is held for the whole of wait()
waiter_lock_encoder ==
    /\ pipe.waiter = "lock_encoder"
    /\ pipe.enc_mutex = "free"
    /\ pipe' = [ pipe EXCEPT !.waiter = "wait_encoder", !.enc_mutex = "waiter" ]
    /\ UNCHANGED pipeOnly

\* lines 245-251: wait() returns when the encoder is no longer running
waiter_wait_encoder ==
    /\ pipe.waiter = "wait_encoder"
    /\ pipe.encoder # "running"
    /\ IF pipe.encoder = "exited_ok"
       THEN pipe' = [ pipe EXCEPT !.waiter = "lock_ffmpeg", !.enc_mutex = "free" ]
       ELSE pipe' = [ pipe EXCEPT !.waiter = "done", !.wres = "error",
                                  !.enc_mutex = "free" ]
    /\ UNCHANGED pipeOnly

\* lines 255-258
waiter_lock_ffmpeg ==
    /\ pipe.waiter = "lock_ffmpeg"
    /\ pipe.ff_mutex = "free"
    /\ pipe' = [ pipe EXCEPT !.waiter = "wait_ffmpeg", !.ff_mutex = "waiter" ]
    /\ UNCHANGED pipeOnly

\* lines 258-266
waiter_wait_ffmpeg ==
    /\ pipe.waiter = "wait_ffmpeg"
    /\ pipe.ffmpeg # "running"
    /\ pipe' = [ pipe EXCEPT !.waiter = "done", !.ff_mutex = "free",
                             !.wres = IF pipe.ffmpeg = "exited_ok" THEN "ok" ELSE "error" ]
    /\ UNCHANGED pipeOnly

\* line 226: the select takes the cancel branch
select_cancel ==
    /\ pipe.pc = "select"
    /\ pipe.cancel_rx
    /\ pipe' = [ pipe EXCEPT !.pc = "cancel_kill_encoder", !.cancel_rx = FALSE,
                             !.enc_at_cancel = pipe.encoder ]
    /\ UNCHANGED pipeOnly

\* Child::kill: a running child is killed, an ended one is left as it is
kill(child) == IF child = "running" THEN "killed" ELSE child

\* lines 230-232: encoder_child_arc.lock() blocks while the closure holds the mutex
cancel_kill_encoder ==
    /\ pipe.pc = "cancel_kill_encoder"
    /\ pipe.enc_mutex = "free"
    /\ pipe' = [ pipe EXCEPT !.pc = "cancel_kill_ffmpeg", !.encoder = kill(pipe.encoder) ]
    /\ UNCHANGED pipeOnly

\* lines 233-237
cancel_kill_ffmpeg ==
    /\ pipe.pc = "cancel_kill_ffmpeg"
    /\ pipe.ff_mutex = "free"
    /\ pipe' = [ pipe EXCEPT !.pc = "returned", !.ret = "cancelled",
                             !.ffmpeg = kill(pipe.ffmpeg) ]
    /\ UNCHANGED pipeOnly

\* lines 239-282: the select takes the branch of the finished closure; `result??`
\* returns its error, otherwise the stderr threads are joined and Ok is returned
select_result ==
    /\ pipe.pc = "select"
    /\ pipe.waiter = "done"
    /\ pipe' = [ pipe EXCEPT !.pc = "returned", !.ret = pipe.wres ]
    /\ UNCHANGED pipeOnly

NextPipeline ==
    \/ spawn_ffmpeg
    \/ spawn_encoder
    \/ encoder_exits
    \/ ffmpeg_exits
    \/ cancel_sent
    \/ waiter_lock_encoder
    \/ waiter_wait_encoder
    \/ waiter_lock_ffmpeg
    \/ waiter_wait_ffmpeg
    \/ select_cancel
    \/ cancel_kill_encoder
    \/ cancel_kill_ffmpeg
    \/ select_result


\* ---------------------------------------------------------------- Persistence::save
\* The steps of one call, on the files of the disk.  The caller has built the
\* snapshot (saver.pc = "save"); a stop of the process may fall between any two
\* steps.

\* snapshots of a store with up to two queued jobs, the first possibly finished
Snapshots ==
    { EmptySnapshot,
      [ EmptySnapshot EXCEPT !.queue = << NewJob(1) >> ],
      [ EmptySnapshot EXCEPT !.queue = << NewJob(1), NewJob(2) >> ],
      [ EmptySnapshot EXCEPT !.queue = << NewJob(2) >>,
                             !.history = << mark_completed(mark_started(NewJob(1))) >> ] }

\* save_state lines 94-98 for a store whose content is `state`
save_state_snapshot(state) ==
    /\ saver.pc = "idle"
    /\ saver' = [ pc |-> "save", state |-> state ]
    /\ save_call' = [ prev |-> disk.state_file, new |-> state ]
    /\ UNCHANGED << storeVarsButSaver, disk, events, pipe, others, bcast, conn >>

\* line 63: state_file.with_extension("tmp")
in_place(path) == path

with_extension_tmp(path) == "tmp_file"

\* lines 59-66: serialize, File::create on the temporary path (truncates)
save_create ==
    /\ saver.pc = "save"
    /\ disk' = [ disk EXCEPT ![with_extension_tmp("state_file")] =
                                FileOf(saver.state, "none") ]
    /\ saver' = [ saver EXCEPT !.pc = "write" ]
    /\ UNCHANGED << storeVarsButSaver, save_call, events, pipe, others, bcast, conn >>

\* line 68: write_all reaches the file in one or several writes
save_write ==
    /\ saver.pc = "write"
    /\ \E bytes \in { "part", "all" } :
         /\ disk' = [ disk EXCEPT ![with_extension_tmp("state_file")].bytes = bytes ]
         /\ saver' = [ saver EXCEPT !.pc = IF bytes = "all" THEN "sync" ELSE "write" ]
    /\ disk' # disk
    /\ UNCHANGED << storeVarsButSaver, save_call, events, pipe, others, bcast, conn >>

\* lines 71-74: sync_all, drop
save_sync ==
    /\ saver.pc = "sync"
    /\ saver' = [ saver EXCEPT !.pc = "rename" ]
    /\ UNCHANGED << storeVarsButSaver, disk, save_call, events, pipe, others, bcast, conn >>

\* fs::rename(from, to): `to` is replaced in one step and `from` is gone
rename(d, from, to) ==
    IF from = to THEN d
    ELSE [ d EXCEPT ![to] = d[from], ![from] = NoFile ]

\* lines 77-80
save_rename ==
    /\ saver.pc = "rename"
    /\ disk' = rename(disk, with_extension_tmp("state_file"), "state_file")
    /\ saver' = IdleSaver
    /\ UNCHANGED << storeVarsButSaver, save_call, events, pipe, others, bcast, conn >>

\* the process stops in the middle of a call: the files stay as they are
Crash ==
    /\ saver.pc \in { "save", "write", "sync", "rename" }
    /\ saver' = IdleSaver
    /\ UNCHANGED << storeVarsButSaver, disk, save_call, events, pipe, others, bcast, conn >>

NextPersist ==
    \/ \E state \in Snapshots : save_state_snapshot(state)
    \/ save_create
    \/ save_write
    \/ save_sync
    \/ save_rename
    \/ Crash

\* ---------------------------------------------------------------- IPC server
\* server.rs line 65: broadcast::channel(100), the number of Events the channel
\* keeps for a receiver that is behind; the model keeps fewer
BroadcastCapacity == 2

storeOnly == << queue, active, history, active_controls, cancel_rx, accepting_jobs,
                start_notify, locks, starter, tasks, clients, saver, last_event,
                disk, save_call, order, accepted, pipe, others >>

\* the receiver of a connection exists from subscribe() to the end of handle_client
Subscribed(c) == conn[c].pc \notin { "none", "closed" }

\* lines 72-118: QueueEvent::X(id) becomes an Event with payload X { job_id: id }
ipc_event_without_id(queue_event) ==
    Message("Event", None, queue_event.event, None)

ipc_event(queue_event) ==
    Message("Event", None, queue_event.event, queue_event.job_id)

\* lines 70-121: the forwarding task takes a QueueEvent from event_rx, converts it
\* and sends it on the broadcast channel; without a receiver the send fails and
\* the Event is dropped
forward_event ==
    /\ event_tx.q # << >>
    /\ event_tx' = [ event_tx EXCEPT !.q = Tail(@) ]
    /\ bcast' = IF \E c \in Conns : Subscribed(c)
                THEN Append(bcast, ipc_event(Head(event_tx.q)))
                ELSE bcast
    /\ UNCHANGED << storeOnly, events, conn >>

\* lines 126-138: accept, subscribe, spawn handle_client
accept(c) ==
    /\ conn[c].pc = "none"
    /\ conn' = [ conn EXCEPT ![c].pc = "select", ![c].next = Len(bcast) + 1 ]
    /\ UNCHANGED << storeOnly, events, event_tx, bcast >>

\* what the clients write on their connections: the first one Requests, each with
\* a new correlation id; the other connections of Clients a well-formed message
\* that is not a Request, or bytes that do not deserialize; the last one nothing
Frames(c) ==
    IF c = 1
    THEN { Message("Request", conn[c].sent + 1, payload, None) :
            payload \in { "AddJob", "Ping" } }
    ELSE IF c \in Clients
    THEN { Message("Response", None, "ok", None), Message("Malformed", None, "none", None) }
    ELSE {}

\* frames written by the clients that the server has not taken up yet (an AddJob
\* is taken up, and counted in `events`, by add_job)
SumLen(f, S) ==
    LET RECURSIVE Sum(_)
        Sum(T) == IF T = {} THEN 0
                  ELSE LET c == CHOOSE x \in T : TRUE
                       IN  Len(f[c].inbox) + Sum(T \ { c })
    IN  Sum(S)

InFlight ==
    SumLen(conn, Conns)
    + Cardinality({ c \in Clients : conn[c].pc = "handle" /\ clients[c].pc = "idle" })

\* the client writes a frame
client_send(c, frame) ==
    /\ Subscribed(c)
    /\ events + InFlight < MaxEvents
    /\ conn' = [ conn EXCEPT ![c].inbox = Append(@, frame),
                             ![c].sent = IF frame.kind = "Request" THEN @ + 1 ELSE @ ]
    /\ UNCHANGED << storeOnly, events, event_tx, bcast >>

\* the match of lines 169-185, as the place handle_client goes to: a Request is
\* handled (Ping is answered without an await, line 286), another message is
\* logged and skipped, a frame that does not deserialize ends the loop
read_arm_never_breaks(msg) ==
    IF msg.kind = "Request"
    THEN ( IF msg.payload = "Ping" THEN "respond" ELSE "handle" )
    ELSE "select"

read_arm(msg) ==
    IF msg.kind = "Request"
    THEN ( IF msg.payload = "Ping" THEN "respond" ELSE "handle" )
    ELSE IF msg.kind = "Malformed" THEN "closed"
    ELSE "select"

\* lines 168-185: the select takes reader.next()
handle_client_read(c) ==
    /\ conn[c].pc = "select"
    /\ conn[c].inbox # << >>
    /\ LET msg == Head(conn[c].inbox)
       IN  /\ conn' = [ conn EXCEPT
                ![c].inbox = Tail(@),
                ![c].request = IF msg.kind = "Request" THEN msg ELSE @,
                ![c].response = IF msg.kind = "Request" /\ msg.payload = "Ping"
                                THEN [ payload |-> "Pong", job_id |-> None ] ELSE @,
                ![c].pc = read_arm(msg) ]
          /\ events' = IF msg.kind = "Request" /\ msg.payload = "AddJob"
                       THEN events ELSE events + 1
    /\ UNCHANGED << storeOnly, event_tx, bcast >>

\* lines 218-228: handle_request of AddJob calls add_job
handle_request_add_job(c) ==
    /\ conn[c].pc = "handle"
    /\ conn[c].request.payload = "AddJob"
    /\ add_job_gate(c) \/ add_job_push(c)

\* Response::new(request_id, payload), Response::ok, Response::error
ResponseWithoutId(request, response) ==
    Message("Response", None, response.payload, response.job_id)

Response(request, response) ==
    Message("Response", request.id, response.payload, response.job_id)

\* line 172: writer.send(IpcMessage::Response(response))
handle_client_respond(c) ==
    /\ conn[c].pc = "respond"
    /\ conn' = [ conn EXCEPT
            ![c].out = Append(@, Response(conn[c].request, conn[c].response)),
            ![c].request = NoMessage,
            ![c].response = NoConn.response,
            ![c].pc = "select" ]
    /\ UNCHANGED << storeOnly, events, event_tx, bcast >>

\* broadcast receiver: the oldest position the channel still keeps
Oldest == IF Len(bcast) > BroadcastCapacity THEN Len(bcast) - BroadcastCapacity + 1 ELSE 1

\* lines 189-201: the select takes broadcast_rx.recv(): an Event is written to the
\* client; Lagged moves the receiver to the oldest Event kept and is only logged
handle_client_event(c) ==
    /\ conn[c].pc = "select"
    /\ conn[c].next <= Len(bcast)
    /\ IF conn[c].next < Oldest
       THEN conn' = [ conn EXCEPT ![c].skipped = @ \cup ( conn[c].next..(Oldest - 1) ),
                                  ![c].next = Oldest ]
       ELSE conn' = [ conn EXCEPT
                ![c].out = Append(@, bcast[conn[c].next]),
                ![c].next = @ + 1 ]
    /\ UNCHANGED << storeOnly, events, event_tx, bcast >>

ConnStep(c) ==
    \/ accept(c)
    \/ \E frame \in Frames(c) : client_send(c, frame)
    \/ handle_client_read(c)
    \/ handle_client_respond(c)
    \/ handle_client_event(c)

Init ==
    /\ InitStore
    /\ pipe = PipeInit
    /\ event_tx = [ rx |-> FALSE, q |-> << >> ]
    /\ bcast = << >>
    /\ conn = [ c \in Conns |-> NoConn ]
    /\ main = RunningMain
    /\ parser = DefaultStats
    /\ stats_rx = [ i \in JobIds |-> 0 ]
    /\ encode = NoCall
    /\ reader = NoCall
    /\ probe = NoCall
    /\ frame_rate = NoCall
    /\ saves = NoCall

ClientStep(c) ==
        \/ add_job_gate(c)
        \/ add_job_push(c)
        \/ \E id \in RequestIds : cancel_job_active(c, id)
        \/ cancel_job_controls(c)
        \/ cancel_job_queue(c)
        \/ cancel_job_history(c)
        \/ \E id \in RequestIds : retry_job_history(c, id)
        \/ retry_job_queue(c)
        \/ clear_history(c)

StarterNext ==
    \/ starter_pending
    \/ starter_notified
    \/ starter_count
    \/ starter_pop
    \/ start_job_insert
    \/ start_job_spawn

TaskNext ==
    \E id \in JobIds :
        \/ task_encode(id)
        \/ task_controls(id)
        \/ task_remove(id)
        \/ task_push(id)

SaverNext ==
    \/ save_state_queue
    \/ save_state_active
    \/ save_state_history
    \/ save_state_persist

\* the running daemon: concurrent connections, the admission loop, the job tasks
Next ==
    \/ \E c \in Clients : ClientStep(c)
    \/ StarterNext
    \/ TaskNext

Spec == Init /\ [][Next]_vars

\* the daemon over its restarts: one connection, the admission loop, the job
\* tasks, the auto-save task and the restart of the process
NextRestart ==
    \/ ClientStep(1)
    \/ StarterNext
    \/ TaskNext
    \/ SaverNext
    \/ Restart

SpecRestart == Init /\ [][NextRestart]_vars

\* one connection sending GetStats
GetStatsStep(c) ==
    \/ \E id \in RequestIds : get_job_queue(c, id)
    \/ get_job_active(c)
    \/ get_job_history(c)

\* the running daemon with one connection changing the store and one reading it
NextRead ==
    \/ ClientStep(1)
    \/ GetStatsStep(2)
    \/ StarterNext
    \/ TaskNext

SpecRead == Init /\ [][NextRead]_vars

\* the daemon while main() shuts it down: the connections are still served
NextShutdown ==
    \/ ClientStep(1)
    \/ StarterNext
    \/ TaskNext
    \/ stop_accepting_jobs

SpecShutdown == Init /\ [][NextShutdown]_vars

\* ---------------------------------------------------------------- encode_job
\* every variable but the calls followed on their own
butCalls == << queue, active, history, active_controls, cancel_rx, accepting_jobs,
               start_notify, locks, starter, tasks, clients, saver, last_event, event_tx,
               disk, save_call, events, order, accepted, pipe, bcast, conn,
               main, parser, stats_rx >>

\* an anyhow::Error is its chain of messages, the outermost first
\* Error::context: one more message around the error
context(e, msg) == << msg >> \o e

\* the Display of an anyhow::Error with {} (to_string): the outermost message
\* only; {:#} would give the chain
to_string(e) == << Head(e) >>

\* the message of the failing step itself: the innermost of the chain
Diagnostic(e) == e[Len(e)]

\* the stages of encode_job, pipeline.rs lines 50-87
Stages == << "probe", "video", "audio", "mux", "cleanup" >>

\* what a stage can end with: Ok, or its error and the processes it had spawned
\* probe_video (ffmpeg.rs lines 130-170), encode_video (pipeline.rs 110-266),
\* encode_audio (341-410), mux_final (475-480), the removal of the temporary
\* files, whose errors are dropped (pipeline.rs 85-86)
Ok == << >>

AudioErrors(audio_mode) ==
    CASE audio_mode = "Opus" ->
            { [ err |-> << "Echec de l'encodage audio", "io error" >>, spawned |-> {} ],
              [ err |-> << "Encodage audio echoue: stderr" >>,
                spawned |-> { "ffmpeg audio" } ] }
      [] audio_mode = "Copy" ->
            { [ err |-> << "Echec de la copie audio", "io error" >>, spawned |-> {} ],
              [ err |-> << "Copie audio echouee: stderr" >>,
                spawned |-> { "ffmpeg audio" } ] }
      [] OTHER ->
            { [ err |-> << "Echec de l'encodage audio custom", "io error" >>,
                spawned |-> {} ],
              [ err |-> << "Encodage audio custom echoue: stderr" >>,
                spawned |-> { "ffmpeg audio" } ] }

StageEnds(stage, config) ==
    CASE stage = "probe" ->
            { [ err |-> Ok, spawned |-> { "ffprobe" } ],
              [ err |-> << "Echec de l'execution de ffprobe", "io error" >>, spawned |-> {} ],
              [ err |-> << "ffprobe a echoue: stderr" >>, spawned |-> { "ffprobe" } ],
              [ err |-> << "Echec du parsing de la sortie ffprobe", "json error" >>,
                spawned |-> { "ffprobe" } ],
              [ err |-> << "Aucun stream video trouve" >>, spawned |-> { "ffprobe" } ] }
      [] stage = "video" ->
            { [ err |-> Ok, spawned |-> { "ffmpeg", "encoder" } ],
              [ err |-> << "Echec du demarrage de ffmpeg", "io error" >>, spawned |-> {} ],
              [ err |-> << "Echec du demarrage de l'encodeur", "io error" >>,
                spawned |-> { "ffmpeg" } ],
              [ err |-> << "Encodage annule" >>, spawned |-> { "ffmpeg", "encoder" } ],
              [ err |-> << "L'encodeur a echoue avec le code" >>,
                spawned |-> { "ffmpeg", "encoder" } ],
              [ err |-> << "ffmpeg a echoue avec le code" >>,
                spawned |-> { "ffmpeg", "encoder" } ] }
      [] stage = "audio" ->
            { [ err |-> Ok, spawned |-> { "ffmpeg audio" } ] }
                \cup AudioErrors(config.audio_mode)
      [] stage = "mux" ->
            { [ err |-> Ok, spawned |-> { "ffmpeg mux" } ],
              [ err |-> << "Echec du muxage", "io error" >>, spawned |-> {} ],
              [ err |-> << "Muxage ffmpeg echoue: stderr" >>, spawned |-> { "ffmpeg mux" } ] }
      [] OTHER -> { [ err |-> Ok, spawned |-> {} ] }

\* line 58: only the error of probe_video gets a context in encode_job; the
\* other stages are followed by a bare ?
stage_error(stage, err) ==
    IF stage = "probe" THEN context(err, "Echec du probe video") ELSE err

\* the ? after each stage: the stage that follows, or the return
after(stage, err) ==
    IF err # Ok \/ stage = "cleanup" THEN "returned"
    ELSE CASE stage = "probe" -> "video"
           [] stage = "video" -> "audio"
           [] stage = "audio" -> "mux"
           [] stage = "mux"   -> "cleanup"

\* the call of encode_job by the job's task (manager.rs line 294)
Configs == [ encoder : { "SvtAv1", "Aom" }, audio_mode : { "Opus", "Copy", "Custom" } ]

NewEncode(config) ==
    [ pc |-> "probe", config |-> config, started |-> << >>, spawned |-> {},
      result |-> Ok, job |-> mark_started(NewJob(1)), error_message |-> << >> ]

\* one stage of encode_job; when the call returns, the match of manager.rs lines
\* 303-315 marks the job with the result, the message being e.to_string()
encode_job_stage ==
    /\ encode.pc \notin { "none", "returned" }
    /\ \E end \in StageEnds(encode.pc, encode.config) :
          LET err == IF end.err = Ok THEN Ok ELSE stage_error(encode.pc, end.err)
              pc  == after(encode.pc, err)
          IN  encode' =
                [ pc |-> pc,
                  config |-> encode.config,
                  started |-> Append(encode.started, encode.pc),
                  spawned |-> encode.spawned \cup end.spawned,
                  result |-> err,
                  job |-> IF pc = "returned"
                          THEN ResultJob(encode.job, IF err = Ok THEN "ok" ELSE "error")
                          ELSE encode.job,
                  error_message |-> IF pc = "returned" /\ err # Ok
                                    THEN to_string(err) ELSE << >> ]
    /\ UNCHANGED << butCalls, reader, probe, frame_rate, saves >>

\* the task starts over with another job
encode_job_again ==
    /\ encode.pc = "returned"
    /\ \E config \in Configs : encode' = NewEncode(config)
    /\ UNCHANGED << butCalls, reader, probe, frame_rate, saves >>

NextEncodeJob == encode_job_stage \/ encode_job_again

\* ---------------------------------------------------------------- the stderr reader
\* the bytes of the encoder's stderr: a letter, a space, carriage return, line
\* feed, and a byte that is no UTF-8 (0xFF)
Bytes == { "a", " ", "CR", "LF", "0xFF" }

\* streams of at most MaxStream bytes are read
MaxStream == 3

\* String::from_utf8(buffer): Ok unless a byte is no UTF-8
from_utf8_ok(buffer) == \A i \in 1..Len(buffer) : buffer[i] # "0xFF"

\* str::trim: the white space at both ends is taken off
RECURSIVE trim_start(_)
trim_start(line) ==
    IF line # << >> /\ Head(line) = " " THEN trim_start(Tail(line)) ELSE line

RECURSIVE trim_end(_)
trim_end(line) ==
    IF line # << >> /\ line[Len(line)] = " "
    THEN trim_end(SubSeq(line, 1, Len(line) - 1)) ELSE line

trim(line) == trim_end(trim_start(line))

\* pipeline.rs lines 168-201: one turn of the loop of the thread, on the byte
\* read; at the end of the stream the loop is left
reader_read ==
    /\ reader.pc = "read"
    /\ IF reader.pos > Len(reader.stream)
       THEN reader' = [ reader EXCEPT !.pc = "done" ]
       ELSE LET byte == reader.stream[reader.pos]
                line == trim(reader.buffer)
            IN  IF byte \in { "CR", "LF" }
                THEN reader' = [ reader EXCEPT
                        !.pos = @ + 1,
                        !.buffer = << >>,
                        !.sent = IF /\ reader.buffer # << >>
                                    /\ from_utf8_ok(reader.buffer)
                                    /\ line # << >>
                                 THEN Append(@, line) ELSE @ ]
                ELSE reader' = [ reader EXCEPT !.pos = @ + 1,
                                                !.buffer = Append(@, byte) ]
    /\ UNCHANGED << butCalls, encode, probe, frame_rate, saves >>

\* ---------------------------------------------------------------- probe_video
\* the inputs of the frame count: nb_frames of the video stream as ffprobe
\* prints it, the duration in tenths of a second, the frame rate in frames per
\* 100 seconds, the precise_frame_count option, and how the decode-only pass of
\* count_frames_precisely goes: it ends with exit status 0, it ends with
\* another status (last_frame is what its stderr showed until then), it cannot
\* be spawned, it exceeds the timeout of 300 s
NbFrames == { NoValue, Some("2880"), Some("N/A") }

Durations == { NoValue, Some(1200), Some(1205) }

FrameRates == { 2400, 2997 }

Passes ==
    { [ kind |-> "success", last_frame |-> 2881 ],
      [ kind |-> "exit_failure", last_frame |-> 0 ],
      [ kind |-> "exit_failure", last_frame |-> 100 ],
      [ kind |-> "spawn_error", last_frame |-> 0 ],
      [ kind |-> "timeout", last_frame |-> 100 ] }

\* str::parse::<u64> on the strings above
parse_u64(str) == IF str = "2880" THEN Some(2880) ELSE NoValue

\* Option::and_then
and_then_parse_u64(opt) == IF opt = NoValue THEN NoValue ELSE parse_u64(opt[1])

\* ffmpeg.rs lines 66-120: Err when the spawn fails (line 87) or on the timeout
\* (lines 107-113); otherwise child.wait() is awaited and, whatever the exit
\* status, the last frame number read is returned
count_frames_precisely(pass) ==
    IF pass.kind \in { "spawn_error", "timeout" }
    THEN [ ok |-> FALSE, frames |-> 0 ]
    ELSE [ ok |-> TRUE, frames |-> pass.last_frame ]

\* (duration_secs * fps).ceil() as u64, on tenths of a second and frames per
\* 100 s
estimate(duration, fps) ==
    ( duration * fps + 999 ) \div 1000

\* Option::map on the duration: the estimate, when the duration is known
estimate_if_known(duration, fps) ==
    IF duration = NoValue THEN NoValue ELSE Some(estimate(duration[1], fps))

\* ffmpeg.rs lines 174-236: the three levels
total_frames_of(in) ==
    LET total_frames_from_metadata == and_then_parse_u64(in.nb_frames)
    IN  IF total_frames_from_metadata # NoValue
        THEN total_frames_from_metadata
        ELSE IF in.precise_count
        THEN ( IF count_frames_precisely(in.pass).ok
               THEN Some(count_frames_precisely(in.pass).frames)
               ELSE estimate_if_known(in.duration, in.fps) )
        ELSE estimate_if_known(in.duration, in.fps)

\* one call of probe_video on a file that has a video stream
probe_video ==
    /\ probe.pc = "call"
    /\ probe' = [ probe EXCEPT !.pc = "done", !.total_frames = total_frames_of(probe) ]
    /\ UNCHANGED << butCalls, encode, reader, frame_rate, saves >>

\* ---------------------------------------------------------------- parse_frame_rate
\* a string is a sequence of characters; the frame rates ffprobe prints are
\* made of decimal digits, '/' and '.', and "x" stands for any other character
Chars == { "0", "1", "2", "/", ".", "x" }

MaxRate == 3

DigitValue ==
    [ c \in { "0", "1", "2", "3", "4", "5", "6", "7", "8", "9" } |->
        CASE c = "0" -> 0 [] c = "1" -> 1 [] c = "2" -> 2 [] c = "3" -> 3
          [] c = "4" -> 4 [] c = "5" -> 5 [] c = "6" -> 6 [] c = "7" -> 7
          [] c = "8" -> 8 [] c = "9" -> 9 ]

Pow10(k) == IF k = 0 THEN 1 ELSE IF k = 1 THEN 10 ELSE IF k = 2 THEN 100 ELSE 1000

\* the rates of the unit tests and of a stream without a frame rate
RateExamples ==
    { << "2", "4" >>, << "3", "0" >>, << "0", "/", "0" >>,
      << "2", "4", "0", "0", "0", "/", "1", "0", "0", "1" >>,
      << "3", "0", "0", "0", "0", "/", "1", "0", "0", "1" >> }

RateStrings ==
    UNION { [ 1..n -> Chars ] : n \in 0..MaxRate } \cup RateExamples

\* str::split_once('/'): the parts before and after the first '/'
split_once(str) ==
    IF \E i \in 1..Len(str) : str[i] = "/"
    THEN LET i == CHOOSE k \in 1..Len(str) :
                      str[k] = "/" /\ \A j \in 1..(k - 1) : str[j] # "/"
         IN  Some(<< SubSeq(str, 1, i - 1), SubSeq(str, i + 1, Len(str)) >>)
    ELSE NoValue

\* the decimal digits of a string as a natural number, the '.' skipped
RECURSIVE DigitsOf(_)
DigitsOf(str) ==
    IF str = << >> THEN 0
    ELSE IF str[Len(str)] = "."
    THEN DigitsOf(SubSeq(str, 1, Len(str) - 1))
    ELSE 10 * DigitsOf(SubSeq(str, 1, Len(str) - 1)) + DigitValue[str[Len(str)]]

\* str::parse::<f64> on these characters: decimal digits with at most one
\* '.', and one digit at least; the value is n / 10^k
parse_f64(str) ==
    LET dots == { i \in 1..Len(str) : str[i] = "." }
    IN  IF /\ \A i \in 1..Len(str) : str[i] \in DOMAIN DigitValue \cup { "." }
           /\ Cardinality(dots) <= 1
           /\ \E i \in 1..Len(str) : str[i] \in DOMAIN DigitValue
        THEN Some([ n |-> DigitsOf(str),
                    k |-> IF dots = { } THEN 0 ELSE Len(str) - CHOOSE i \in dots : TRUE ])
        ELSE NoValue

\* a rate is kept in thousandths of a frame per second
Milli(v) == ( v.n * 1000 ) \div Pow10(v.k)

\* what an integer division of the two parts would give
div_u64(num, den) ==
    ( ( num.n \div Pow10(num.k) ) \div ( den.n \div Pow10(den.k) ) ) * 1000

\* num / den on f64, line 281
div_f64(num, den) ==
    ( num.n * Pow10(den.k) * 1000 ) \div ( den.n * Pow10(num.k) )

\* ffmpeg.rs lines 276-288
parse_frame_rate_of(rate_str) ==
    IF split_once(rate_str) # NoValue
    THEN LET num == parse_f64(split_once(rate_str)[1][1])
             den == parse_f64(split_once(rate_str)[1][2])
         IN  IF num = NoValue \/ den = NoValue THEN NoValue
             ELSE IF den[1].n > 0 THEN Some(div_f64(num[1], den[1]))
             ELSE NoValue
    ELSE IF parse_f64(rate_str) = NoValue THEN NoValue
    ELSE Some(Milli(parse_f64(rate_str)[1]))

\* one call of parse_frame_rate
parse_frame_rate ==
    /\ frame_rate.pc = "call"
    /\ frame_rate' = [ frame_rate EXCEPT !.pc = "done",
                                         !.fps = parse_frame_rate_of(frame_rate.rate_str) ]
    /\ UNCHANGED << butCalls, encode, reader, probe, saves >>

\* ---------------------------------------------------------------- two saves at once
\* the callers of save_state while main() shuts down: the auto-save task
\* (main.rs lines 126-134, aborted at line 213 only) and main() (line 200)
Savers == { "auto_save", "final_save" }

\* a file is the sequence of the blocks written to it; Absent is no file
Absent == << "absent" >>

\* serde_json::to_string_pretty of the snapshot of a caller, as blocks: the two
\* snapshots differ, in length too
Json(c, len) == [ i \in 1..len |-> << c, i >> ]

\* the longest snapshot, in blocks
MaxBlocks == 2

\* write at an offset of the file: the blocks before stay (a hole reads as
\* zeros), the block at the offset is replaced, the blocks behind stay
write_at(content, offset, block) ==
    [ i \in 1..( IF Len(content) > offset THEN Len(content) ELSE offset + 1 ) |->
        IF i = offset + 1 THEN block
        ELSE IF i <= Len(content) THEN content[i]
        ELSE "zeros" ]

\* where the inode behind a descriptor is after fs::rename(tmp_file, state_file):
\* the temporary file now has the name of the state file, the former state file
\* has no name any more
fd_after_rename(fd) ==
    CASE fd = "tmp_file"   -> "state_file"
      [] fd = "state_file" -> "unlinked"
      [] OTHER             -> fd

\* persist.rs line 65: File::create makes the file or truncates the one there
\* (the descriptors open on it see the truncation)
concurrent_create(c) ==
    /\ saves.pc[c] = "create"
    /\ saves' = [ saves EXCEPT !.files.tmp_file = << >>,
                               !.fd[c] = "tmp_file",
                               !.pc[c] = "write" ]
    /\ UNCHANGED << butCalls, encode, reader, probe, frame_rate >>

\* line 68: write_all, block after block at the offset of the descriptor
concurrent_write(c) ==
    /\ saves.pc[c] = "write"
    /\ LET fd == saves.fd[c]
           off == saves.offset[c]
           json == Json(c, saves.len[c])
       IN  saves' = [ saves EXCEPT
                !.files = IF fd = "unlinked" THEN @
                          ELSE [ @ EXCEPT ![fd] = write_at(@, off, json[off + 1]) ],
                !.offset[c] = off + 1,
                !.pc[c] = IF off + 1 = Len(json) THEN "rename" ELSE "write" ]
    /\ UNCHANGED << butCalls, encode, reader, probe, frame_rate >>

\* lines 71-80: sync_all, drop, fs::rename, which fails when the temporary
\* file is not there any more; the result is what the call returns, put is
\* the file its rename gave the name of the state file
concurrent_rename(c) ==
    /\ saves.pc[c] = "rename"
    /\ IF saves.files.tmp_file = Absent
       THEN saves' = [ saves EXCEPT !.pc[c] = "done", !.result[c] = "err" ]
       ELSE saves' = [ saves EXCEPT
                !.files = [ tmp_file |-> Absent, state_file |-> saves.files.tmp_file ],
                !.fd = [ x \in Savers |-> fd_after_rename(saves.fd[x]) ],
                !.pc[c] = "done",
                !.put[c] = saves.files.tmp_file,
                !.result[c] = "ok" ]
    /\ UNCHANGED << butCalls, encode, reader, probe, frame_rate >>

\* the interval of the auto-save task ticks again (main.rs line 129)
concurrent_again(c) ==
    /\ c = "auto_save"
    /\ saves.pc[c] = "done"
    /\ saves.pc["final_save"] # "done"
    /\ saves' = [ saves EXCEPT !.pc[c] = "create", !.offset[c] = 0,
                               !.result[c] = "none", !.fd[c] = "none" ]
    /\ UNCHANGED << butCalls, encode, reader, probe, frame_rate >>

NextSaves ==
    \E c \in Savers :
        \/ concurrent_create(c)
        \/ concurrent_write(c)
        \/ concurrent_rename(c)
        \/ concurrent_again(c)

\* MaxStats EncodingStats at most wait in the progress channel of a job (the
\* channel is unbounded)
MaxStats == 1

\* Option<&mut EncodingJob>: job.stats = Some(stats) when the job is in the map
set_stats_or_insert(m, id) ==
    IF id \in DOMAIN m THEN [ m EXCEPT ![id].stats = "Some" ]
    ELSE MapInsert(m, id, mark_started(NewJob(id)))

set_stats(m, id) ==
    IF id \in DOMAIN m THEN [ m EXCEPT ![id].stats = "Some" ] ELSE m

\* pipeline.rs lines 176-185: the thread reading the encoder's stderr sends the
\* stats of a parsed line on stats_tx while the encoder runs
encoder_stats(id) ==
    /\ tasks[id].pc = "encode"
    /\ stats_rx[id] < MaxStats
    /\ events < MaxEvents
    /\ events' = events + 1
    /\ stats_rx' = [ stats_rx EXCEPT ![id] = @ + 1 ]
    /\ UNCHANGED << queue, active, history, active_controls, cancel_rx, accepting_jobs,
                    start_notify, locks, starter, tasks, clients, saver, last_event,
                    event_tx, disk, order, accepted, save_call, pipe, main, parser,
                    bcast, conn, calls >>

\* manager.rs lines 283-291: the stats task takes one EncodingStats, stores it
\* in the active job when there is one, and sends JobProgress in either case
stats_task(id) ==
    /\ stats_rx[id] > 0
    /\ CanWrite("active", None)
    /\ stats_rx' = [ stats_rx EXCEPT ![id] = @ - 1 ]
    /\ active' = set_stats(active, id)
    /\ Emit(id, "JobProgress")
    /\ UNCHANGED << queue, history, active_controls, cancel_rx, accepting_jobs,
                    start_notify, locks, starter, tasks, clients, saver, disk, events,
                    order, accepted, save_call, pipe, main, parser, bcast, conn, calls >>

StatsNext ==
    \E id \in JobIds :
        \/ encoder_stats(id)
        \/ stats_task(id)

\* the running daemon with a connection that adds and retries jobs, every task
\* of the runtime being scheduled again and again: the admission loop, the job
\* tasks (the encoder ends), and the request being handled
NextAdmission ==
    \/ add_job_gate(1)
    \/ add_job_push(1)
    \/ \E id \in RequestIds : retry_job_history(1, id)
    \/ retry_job_queue(1)
    \/ StarterNext
    \/ TaskNext

FairAdmission ==
    /\ WF_vars(StarterNext)
    /\ \A id \in JobIds :
          WF_vars(task_encode(id) \/ task_controls(id) \/ task_remove(id) \/ task_push(id))
    /\ WF_vars(add_job_push(1) \/ retry_job_queue(1))

SpecAdmission == Init /\ [][NextAdmission]_vars /\ FairAdmission

\* the state files main() may find when it starts: none, the file of an earlier
\* save_state, or a file that holds only a part of such a file's JSON
LoadFiles ==
    { NoFile } \cup
    { FileOf([ queue |-> << NewJob(2) >>,
               active |-> << mark_started(NewJob(1)) >>,
               history |-> << mark_failed(mark_started(NewJob(3))) >> ], bytes) :
        bytes \in { "all", "part" } }

\* main() lines 81-107 on one of these files: QueueManager::new, load_state, the
\* tasks are spawned
InitLoad ==
    \E file \in LoadFiles :
        /\ queue = load_state_queue(file)
        /\ history = load_state_history(file)
        /\ active = EmptyMap
        /\ active_controls = {}
        /\ cancel_rx = [ i \in JobIds |-> FALSE ]
        /\ accepting_jobs = TRUE
        /\ start_notify = FALSE
        /\ locks = FreeLocks
        /\ starter = IdleStarter
        /\ tasks = [ i \in JobIds |-> IdleTask ]
        /\ clients = [ c \in Clients |-> IdleClient ]
        /\ saver = IdleSaver
        /\ last_event = [ i \in JobIds |-> "None" ]
        /\ disk = [ state_file |-> file, tmp_file |-> NoFile ]
        /\ save_call = [ prev |-> NoFile, new |-> EmptySnapshot ]
        /\ events = 0
        /\ order = IdSeq(queue)
        /\ accepted = Ids(queue) \cup Ids(history)
        /\ pipe = PipeInit
        /\ event_tx = [ rx |-> FALSE, q |-> << >> ]
        /\ bcast = << >>
        /\ conn = [ c \in Conns |-> NoConn ]
        /\ main = [ RunningMain EXCEPT !.load_error = ~load(file).ok ]
        /\ parser = DefaultStats
        /\ stats_rx = [ i \in JobIds |-> 0 ]
        /\ encode = NoCall
        /\ reader = NoCall
        /\ probe = NoCall
        /\ frame_rate = NoCall
        /\ saves = NoCall

\* the daemon started on such a file, over its restarts: one connection, the
\* admission loop and the restart of the process (the jobs dispatched stay active)
NextLoad ==
    \/ ClientStep(1)
    \/ StarterNext
    \/ Restart

SpecLoad == InitLoad /\ [][NextLoad]_vars

\* the daemon started on such a file with its tasks scheduled again and again:
\* the admission loop and the job tasks run when they can and a request being
\* handled is finished, while a request of the connection (AddJob) or another
\* restart may come or not
NextRecover ==
    \/ add_job_gate(1)
    \/ add_job_push(1)
    \/ StarterNext
    \/ TaskNext
    \/ Restart

FairRecover ==
    /\ WF_vars(StarterNext)
    /\ \A id \in JobIds :
          WF_vars(task_encode(id) \/ task_controls(id) \/ task_remove(id) \/ task_push(id))
    /\ WF_vars(add_job_push(1))

SpecRecover == InitLoad /\ [][NextRecover]_vars /\ FairRecover

\* the daemon started on a state file and then shut down while its jobs are
\* long ones (no encode ends before main() returns): one connection that sends
\* AddJob and RetryJob, the admission loop, the auto-save task (aborted only
\* when main() returns, main.rs line 213) and main(); the runtime schedules
\* every task again and again, while the requests, the ticks of the auto-save
\* and the signal may come or not
NextDrain ==
    \/ main.pc # "done" /\ add_job_gate(1)
    \/ main.pc # "done" /\ add_job_push(1)
    \/ main.pc # "done" /\ retry_job_history(1, 3)
    \/ main.pc # "done" /\ retry_job_queue(1)
    \/ main.pc # "done" /\ StarterNext
    \/ main.pc # "done" /\ SaverNext
    \/ MainNext

FairDrain ==
    /\ WF_vars(main.pc # "done" /\ StarterNext)
    /\ WF_vars(main.pc # "done" /\ ( add_job_push(1) \/ retry_job_queue(1) ))
    /\ WF_vars(main.pc # "done" /\ ( save_state_active \/ save_state_history
                                        \/ save_state_persist ))
    /\ WF_vars(main_stop_accepting_jobs \/ wait_active_jobs \/ main_save_queue
                \/ main_save_active \/ main_save_history \/ main_save_persist
                \/ main_remove_socket)

SpecDrain == InitLoad /\ [][NextDrain]_vars /\ FairDrain

\* the daemon with a connection that sends Shutdown and AddJob requests: the
\* tasks of the runtime are scheduled again and again and main() goes on once
\* its select has returned; SIGINT (shutdown_signal) may come or not
NextShutdownRequest ==
    \/ main.pc # "done" /\ handle_request_shutdown(1)
    \/ main.pc # "done" /\ add_job_gate(1)
    \/ main.pc # "done" /\ add_job_push(1)
    \/ main.pc # "done" /\ StarterNext
    \/ main.pc # "done" /\ TaskNext
    \/ MainNext

FairShutdownRequest ==
    /\ WF_vars(main.pc # "done" /\ StarterNext)
    /\ WF_vars(main.pc # "done" /\ TaskNext)
    /\ WF_vars(main.pc # "done" /\ add_job_push(1))
    /\ WF_vars(main_stop_accepting_jobs \/ wait_active_jobs \/ main_save_queue
                \/ main_save_active \/ main_save_history \/ main_save_persist
                \/ main_remove_socket)

SpecShutdownRequest == Init /\ [][NextShutdownRequest]_vars /\ FairShutdownRequest

\* the store at rest, no call followed yet
InitButCalls ==
    /\ InitStore
    /\ pipe = PipeInit
    /\ event_tx = [ rx |-> FALSE, q |-> << >> ]
    /\ bcast = << >>
    /\ conn = [ c \in Conns |-> NoConn ]
    /\ main = RunningMain
    /\ parser = DefaultStats
    /\ stats_rx = [ i \in JobIds |-> 0 ]

\* the task of a job calls encode_job
InitEncodeJob ==
    /\ InitButCalls
    /\ \E config \in Configs : encode = NewEncode(config)
    /\ reader = NoCall
    /\ probe = NoCall
    /\ frame_rate = NoCall
    /\ saves = NoCall

SpecEncodeJob == InitEncodeJob /\ [][NextEncodeJob]_vars

\* parse_frame_rate is called on some string
InitFrameRate ==
    /\ InitButCalls
    /\ encode = NoCall
    /\ reader = NoCall
    /\ probe = NoCall
    /\ saves = NoCall
    /\ \E str \in RateStrings :
          frame_rate = [ pc |-> "call", rate_str |-> str, fps |-> NoValue ]

SpecFrameRate == InitFrameRate /\ [][parse_frame_rate]_vars

\* probe_video is called on some file
InitProbe ==
    /\ InitButCalls
    /\ encode = NoCall
    /\ reader = NoCall
    /\ frame_rate = NoCall
    /\ saves = NoCall
    /\ \E nb \in NbFrames, d \in Durations, fps \in FrameRates,
          precise \in BOOLEAN, pass \in Passes :
          probe = [ pc |-> "call", nb_frames |-> nb, duration |-> d, fps |-> fps,
                    precise_count |-> precise, pass |-> pass, total_frames |-> NoValue ]

SpecProbe == InitProbe /\ [][probe_video]_vars

\* the thread starts on the stderr of an encoder that will write `stream`
InitReader ==
    /\ InitButCalls
    /\ encode = NoCall
    /\ probe = NoCall
    /\ frame_rate = NoCall
    /\ saves = NoCall
    /\ \E n \in 0..MaxStream : \E stream \in [ 1..n -> Bytes ] :
          reader = [ pc |-> "read", stream |-> stream, pos |-> 1,
                     buffer |-> << >>, sent |-> << >> ]

SpecReader == InitReader /\ [][reader_read]_vars

\* the state file of an earlier save is there; both callers are about to call
\* Persistence::save, each with its snapshot
InitSaves ==
    /\ InitButCalls
    /\ encode = NoCall
    /\ reader = NoCall
    /\ probe = NoCall
    /\ frame_rate = NoCall
    /\ \E len \in [ Savers -> 1..MaxBlocks ] :
          saves = [ files |-> [ tmp_file |-> Absent, state_file |-> Json("earlier", 1) ],
                    len |-> len,
                    pc |-> [ c \in Savers |-> "create" ],
                    fd |-> [ c \in Savers |-> "none" ],
                    offset |-> [ c \in Savers |-> 0 ],
                    put |-> [ c \in Savers |-> Absent ],
                    result |-> [ c \in Savers |-> "none" ] ]

SpecSaves == InitSaves /\ [][NextSaves]_vars

\* StatsParser::new(total_frames, total_duration), parser.rs lines 23-30
InitParser ==
    /\ InitStore
    /\ pipe = PipeInit
    /\ event_tx = [ rx |-> FALSE, q |-> << >> ]
    /\ bcast = << >>
    /\ conn = [ c \in Conns |-> NoConn ]
    /\ main = RunningMain
    /\ stats_rx = [ i \in JobIds |-> 0 ]
    /\ encode = NoCall
    /\ reader = NoCall
    /\ probe = NoCall
    /\ frame_rate = NoCall
    /\ saves = NoCall
    /\ \E total_frames \in { NoValue, Some(0), Some(2000) } :
       \E total_duration \in { NoValue, Some(80) } :
          parser = [ DefaultStats EXCEPT !.total_frames = total_frames,
                                         !.total_duration = total_duration ]

\* a StatsParser that is fed lines with parse_line
SpecParseLine == InitParser /\ [][ParseLine]_vars

\* a StatsParser that is fed the lines of the encoder with parse_encoder_line
SpecParseEncoderLine == InitParser /\ [][ParseEncoderLine]_vars

\* the daemon until main() returns (lines 213-217: the tasks are aborted and the
\* process ends): one connection, the admission loop, the job tasks, main()
NextMain ==
    \/ main.pc # "done" /\ ClientStep(1)
    \/ main.pc # "done" /\ StarterNext
    \/ main.pc # "done" /\ TaskNext
    \/ MainNext

SpecMain == Init /\ [][NextMain]_vars

\* the IPC server in front of the store: the connections and the forwarding task
\* (the jobs stay queued: the admission loop is not followed)
NextServer ==
    \/ \E c \in Conns : ConnStep(c)
    \/ handle_request_add_job(1)
    \/ forward_event

InitServer ==
    /\ InitStore
    /\ pipe = PipeInit
    /\ event_tx = [ rx |-> TRUE, q |-> << >> ]
    /\ bcast = << >>
    /\ conn = [ c \in Conns |-> NoConn ]
    /\ main = RunningMain
    /\ parser = DefaultStats
    /\ stats_rx = [ i \in JobIds |-> 0 ]
    /\ encode = NoCall
    /\ reader = NoCall
    /\ probe = NoCall
    /\ frame_rate = NoCall
    /\ saves = NoCall

SpecServer == InitServer /\ [][NextServer]_vars

\* the queue manager with one connection, the event channel having a receiver:
\* event_tx.q is the sequence of the events sent
NextEvents ==
    \/ add_job_gate(1)
    \/ add_job_push(1)
    \/ \E id \in RequestIds : cancel_job_active(1, id)
    \/ cancel_job_controls(1)
    \/ cancel_job_queue(1)
    \/ cancel_job_history(1)
    \/ StarterNext
    \/ TaskNext
    \/ StatsNext

SpecEvents == InitServer /\ [][NextEvents]_vars

\* one call of encode_video, with its two children and the cancel signal
SpecPipeline == Init /\ [][NextPipeline]_vars

\* calls of Persistence::save on a disk, with the process stopping at any step
SpecPersist == Init /\ [][NextPersist]_vars

\* ---------------------------------------------------------------- properties
InQueue(id) == IF id \in Ids(queue) THEN 1 ELSE 0

InActive(id) == IF id \in DOMAIN active THEN 1 ELSE 0

InHistory(id) == IF id \in Ids(history) THEN 1 ELSE 0

\* C1: the active set never holds more than max_concurrent jobs, whatever the
\* interleaving of AddJob, RetryJob, completions and the admission loop.
C1_ActiveWithinLimit == Cardinality(DOMAIN active) <= max_concurrent

\* the limit is reached while a job waits and another AddJob is about to push
C1_Witness ==
    /\ Cardinality(DOMAIN active) = max_concurrent
    /\ queue # << >>
    /\ \E c \in Clients : clients[c].pc = "add_push"

\* C2: every accepted job id is, in every state, in exactly one of the queue, the
\* active set and the history.
C2_ExactlyOnePartition ==
    \A id \in accepted : InQueue(id) + InActive(id) + InHistory(id) = 1

\* C3: AddJob and RetryJob append at the tail of the queue, and every dispatch
\* (JobStarted) is of the job that has been waiting longest among the jobs that
\* were appended and neither dispatched nor cancelled while queued.
C3_FifoAdmission ==
    [][ /\ \A c \in Clients :
            ( clients[c].pc \in { "add_push", "retry_queue" } /\ clients'[c].pc = "idle"
              /\ events' = events )
                => queue' = Append(queue, clients[c].job)
        /\ \A id \in JobIds :
            ( starter.pc = "start" /\ starter'.pc = "controls" /\ starter.job.id = id )
                => ( last_event'[id] = "JobStarted" /\ order # << >> /\ Head(order) = id )
      ]_vars

\* a job has just been dispatched ahead of a job that was appended after it
C3_Witness ==
    /\ starter.pc = "controls"
    /\ last_event[starter.job.id] = "JobStarted"
    /\ queue # << >>
    /\ order = IdSeq(queue)

\* C4: a run that ended because of the cancel signal leaves the job Cancelled,
\* with a JobCancelled event, not Failed with JobFailed.
C4_CancelledNotFailed ==
    \A id \in JobIds :
        ( tasks[id].pc = "push" /\ tasks[id].result = "cancelled" )
            => ( tasks[id].job.status = "Cancelled" /\ last_event[id] = "JobCancelled" )

\* what a thread needs next, and who keeps it from getting it
Blockers(t) ==
    IF t \in Clients /\ clients[t].pc \in { "add_push", "cancel_queue", "retry_queue" }
    THEN ( { locks["queue"].w } \cup locks["queue"].r ) \ { None, t }
    ELSE IF t \in Clients /\ clients[t].pc = "cancel_history"
    THEN ( { locks["history"].w } \cup locks["history"].r ) \ { None, t }
    ELSE IF t = SaverId /\ saver.pc = "active"
    THEN { locks["active"].w } \ { None, t }
    ELSE IF t = SaverId /\ saver.pc = "history"
    THEN { locks["history"].w } \ { None, t }
    ELSE {}

Deadlocked ==
    \E S \in SUBSET ( Clients \cup { SaverId } ) :
        /\ S # {}
        /\ \A t \in S : Blockers(t) # {} /\ Blockers(t) \subseteq S

\* C8: no interleaving of the public operations leaves tasks waiting for each
\* other's queue/active/history locks for ever.
C8_NoLockDeadlock == ~Deadlocked

\* C9: a CancelJob that found the job in the active set returns success, with the
\* cancel signal sent (unless the run has already ended), and changes neither the
\* job's location nor its status.
C9_CancelActiveSucceeds ==
    [][ \A c \in Clients :
            ( clients[c].saw_active /\ clients[c].pc # "idle" /\ clients'[c].pc = "idle"
              /\ events' = events )
                => /\ clients'[c].ret = "ok"
                   /\ ( tasks[clients[c].id].pc = "encode" => cancel_rx'[clients[c].id] )
                   /\ UNCHANGED << queue, active, history >>
      ]_vars

\* C10: CancelJob on a queued job takes it out of the queue, leaving the other
\* queued jobs in their order, and appends it to history Cancelled, with no start
\* time and with a finish time, and JobCancelled is emitted; it is in no state
\* dispatched afterwards.
C10_CancelQueued ==
    [][ \A c \in Clients :
          /\ ( clients[c].pc = "cancel_queue" /\ clients[c].id \in Ids(queue)
                /\ clients'[c].pc # "cancel_queue" /\ events' = events )
                => /\ clients[c].id \notin Ids(queue')
                   /\ IdSeq(queue') = SeqWithout(IdSeq(queue), clients[c].id)
          /\ ( clients[c].pc = "cancel_history" /\ clients'[c].pc = "idle"
                /\ events' = events )
                => /\ clients'[c].ret = "ok"
                   /\ Len(history') = Len(history) + 1
                   /\ history'[Len(history')].id = clients[c].id
                   /\ history'[Len(history')].status = "Cancelled"
                   /\ history'[Len(history')].started_at = "None"
                   /\ history'[Len(history')].finished_at = "Some"
                   /\ last_event'[clients[c].id] = "JobCancelled"
                   /\ clients[c].id \notin DOMAIN active'
      ]_vars

\* C6: after save_state and load_state on a fresh store the queue starts with the
\* saved queue, the history is the saved history, the active set is empty, and
\* every job of the saved active partition is in the queue, Queued, with its
\* stats, started_at and finished_at cleared.
C6_RoundTrip ==
    [][ ( Restart /\ disk.state_file.exists )
            => LET s == disk.state_file.state
               IN  /\ SubSeq(queue', 1, Len(s.queue)) = s.queue
                   /\ history' = s.history
                   /\ active' = EmptyMap
                   /\ \A i \in 1..Len(s.active) :
                        \E k \in 1..Len(queue') :
                            queue'[k] = [ s.active[i] EXCEPT !.status = "Queued",
                                            !.stats = "None", !.started_at = "None",
                                            !.finished_at = "None" ]
      ]_vars

\* C5: when the cancel signal is taken while the encoder is running, the cancel
\* branch never has to wait for the encoder to end on its own, and when
\* encode_video returns its cancellation error the encoder has been killed and
\* ffmpeg is not running.
C5_CancelKillsChildren ==
    /\ ~( pipe.pc = "cancel_kill_encoder" /\ pipe.encoder = "running"
          /\ pipe.enc_mutex = "waiter" )
    /\ ( pipe.ret = "cancelled" /\ pipe.enc_at_cancel = "running" )
            => ( pipe.encoder = "killed" /\ pipe.ffmpeg # "running" )

\* C11: RetryJob(id) succeeds only for a history entry with status Failed: the
\* entry leaves history, and the job is appended at the tail of the queue, Queued,
\* with error message, stats, started_at and finished_at cleared; for every other
\* id (a Completed or Cancelled entry, a queued, active or unknown id) it fails
\* with the "not found or not failed" error and queue, active set and history are
\* unchanged.
C11_RetryOnlyFailed ==
    [][ \A c \in Clients :
          /\ \A id \in JobIds :
                retry_job_history(c, id) =>
                    IF \E i \in 1..Len(history) :
                            history[i].id = id /\ history[i].status = "Failed"
                    THEN /\ clients'[c].pc = "retry_queue"
                         /\ clients'[c].job = [ NewJob(id) EXCEPT !.status = "Queued" ]
                         /\ Len(history') = Len(history) - 1
                         /\ ~\E i \in 1..Len(history') :
                                history'[i].id = id /\ history'[i].status = "Failed"
                         /\ UNCHANGED << queue, active >>
                    ELSE /\ clients'[c].pc = "idle"
                         /\ clients'[c].ret = "not_failed"
                         /\ UNCHANGED << queue, active, history >>
          /\ retry_job_queue(c) =>
                /\ clients'[c].ret = "ok"
                /\ queue' = Append(queue, [ NewJob(clients[c].id) EXCEPT !.status = "Queued" ])
                /\ UNCHANGED << active, history >>
      ]_vars

\* a retry has taken a Failed entry out of history and is about to append it
\* behind a job that is already queued, while another RetryJob has been refused
C11_Witness ==
    \E c, d \in Clients :
        /\ clients[c].pc = "retry_queue"
        /\ clients[c].id \notin Ids(history)
        /\ queue # << >>
        /\ clients[d].ret = "not_failed"

\* C12: once StopAcceptingJobs has been called the gate stays closed and every
\* AddJob that starts afterwards fails with the "not accepting" error, adds
\* nothing to the queue, emits no event and does not notify the admission loop;
\* an AddJob that starts before it is given a new Queued job, which it appends at
\* the tail of the queue, with JobAdded emitted and the loop notified.
C12_StopAccepting ==
    [][ /\ ~accepting_jobs => ~accepting_jobs'
        /\ \A c \in Clients :
              /\ add_job_gate(c) =>
                    IF accepting_jobs
                    THEN /\ clients'[c].pc = "add_push"
                         /\ clients'[c].job = NewJob(clients'[c].id)
                         /\ clients'[c].id \notin Ids(queue) \cup DOMAIN active \cup Ids(history)
                    ELSE /\ clients'[c].pc = "idle"
                         /\ clients'[c].ret = "not_accepting"
                         /\ UNCHANGED << queue, active, history, last_event, start_notify >>
              /\ add_job_push(c) =>
                    /\ clients'[c].ret = "ok"
                    /\ queue' = Append(queue, NewJob(clients[c].id))
                    /\ last_event'[clients[c].id] = "JobAdded"
                    /\ start_notify'
      ]_vars

\* an AddJob was refused after the gate closed, with an earlier job in the store
C12_Witness ==
    /\ ~accepting_jobs
    /\ \E c \in Clients : clients[c].ret = "not_accepting"
    /\ Ids(queue) \cup DOMAIN active \cup Ids(history) # {}

\* C13: with max_concurrent = 1, while a job is Running in the active set it is
\* the only active job, and every job appended to the queue since (and not
\* cancelled) is still in the queue: the admission loop holds no popped job and
\* dispatches the next one only once the first has left the active set with its
\* terminal status.
C13_SecondWaitsForFirst ==
    \A a \in DOMAIN active :
        active[a].status = "Running" =>
            /\ DOMAIN active = { a }
            /\ \A i \in 1..Len(order) : order[i] \in Ids(queue) \ { a }
            /\ starter.job.id \in { None, a }
            /\ \A id \in JobIds \ { a } :
                    tasks[id].pc # "none" => tasks[id].job.status \in { "Completed", "Failed" }

\* the admission loop has taken the notification of the second AddJob, found the
\* first job Running and gone back to waiting, leaving the second job queued
C13_Witness ==
    /\ \E a \in DOMAIN active : active[a].status = "Running"
    /\ queue # << >>
    /\ starter.pc = "wait"
    /\ ~start_notify
    /\ \A c \in Clients : clients[c].pc = "idle"

\* the jobs of the store
StoreJobs ==
    { queue[i] : i \in 1..Len(queue) } \cup { active[k] : k \in DOMAIN active }
    \cup { history[i] : i \in 1..Len(history) }

\* C14: for every job of the queue, the active set and the history, stats is
\* present if and only if the status is Running, and the error message is present
\* if and only if the status is Failed.
C14_StatsIffRunning ==
    \A job \in StoreJobs :
        /\ ( job.stats # "None" ) <=> ( job.status = "Running" )
        /\ ( job.error_message # "None" ) <=> ( job.status = "Failed" )

\* C15: GetStats(id) is answered with Stats only when the job it finds is Running
\* in the active set; for a job it finds in the queue or in the history, and for
\* an id it finds nowhere, it is answered with an Error.
C15_StatsOnlyWhenRunning ==
    [][ \A c \in Clients :
          /\ \A id \in JobIds :
                ( get_job_queue(c, id) /\ id \in Ids(queue) )
                    => clients'[c].ret = "no_stats"
          /\ ( get_job_active(c) /\ clients'[c].ret = "stats" )
                => active[clients[c].id].status = "Running"
          /\ get_job_history(c)
                => clients'[c].ret \in { "no_stats", "job_not_found" }
      ]_vars

\* C16: CancelJob(id) fails when its search finds the id neither in the active set
\* nor in the queue (an unknown id, or a job that is already in history), and
\* then the queue, the active set and the history are unchanged and no event is
\* emitted.
C16_CancelNotFound ==
    [][ \A c \in Clients :
          ( cancel_job_queue(c) /\ clients[c].id \notin Ids(queue) \cup DOMAIN active )
            => /\ clients'[c].pc = "idle"
               /\ clients'[c].ret = "not_found"
               /\ UNCHANGED << queue, active, history, last_event, cancel_rx >>
      ]_vars

\* a CancelJob has failed while the queue and the history both hold jobs
C16_Witness ==
    /\ \E c \in Clients : clients[c].ret = "not_found"
    /\ queue # << >>
    /\ history # << >>
    /\ DOMAIN active = {}

\* C17: on every exit path of encode_video (success, encoder spawn failure after
\* ffmpeg was started, encoder or ffmpeg exiting non-zero, cancellation) neither
\* the demux/decode child nor the encoder child is still running when the call
\* returns.
C17_NoChildLeftRunning ==
    pipe.pc = "returned" =>
        ( pipe.encoder # "running" /\ pipe.ffmpeg # "running" )

\* messages of one kind written to a connection, in the order written
Written(c, kind) == SelectSeq(conn[c].out, LAMBDA m : m.kind = kind)

\* Requests of a connection that the server has read
RequestsRead(c) ==
    conn[c].sent - Len(SelectSeq(conn[c].inbox, LAMBDA m : m.kind = "Request"))

\* C19: on each connection the Responses written are, in order, the answers to
\* the Requests read, one for each and with the Request's id (the request being
\* handled has none yet), whatever Events are written in between.
C19_ResponsesInOrder ==
    \A c \in Conns :
        LET answered == IF conn[c].pc \in { "handle", "respond" }
                        THEN RequestsRead(c) - 1 ELSE RequestsRead(c)
        IN  /\ Len(Written(c, "Response")) = answered
            /\ \A i \in 1..answered : Written(c, "Response")[i].id = i
            /\ conn[c].pc \in { "handle", "respond" }
                    => conn[c].request.id = RequestsRead(c)

\* two Requests were answered in order with an Event written between the answers
C19_Witness ==
    \E c \in Conns :
        \E i, j, k \in 1..Len(conn[c].out) :
            /\ i < j /\ j < k
            /\ conn[c].out[i].kind = "Response" /\ conn[c].out[i].id = 1
            /\ conn[c].out[j].kind = "Event"
            /\ conn[c].out[k].kind = "Response" /\ conn[c].out[k].id = 2

\* positions of the broadcast channel that a connection has taken: from its
\* subscription to its receiver's position, but for the ones Lagged skipped
Taken(c) ==
    LET first == conn[c].next - Len(Written(c, "Event")) - Cardinality(conn[c].skipped)
    IN  ( first..(conn[c].next - 1) ) \ conn[c].skipped

\* the elements of a set of positions of a sequence, in order
Pick(s, positions) ==
    LET RECURSIVE From(_)
        From(i) == IF i > Len(s) THEN << >>
                   ELSE IF i \in positions THEN << s[i] >> \o From(i + 1)
                   ELSE From(i + 1)
    IN  From(1)

\* every accepted AddJob has its JobAdded, with the id of its answer, on the way
\* to the clients or broadcast
JobAddedFollows ==
    \A c \in Conns : \A i \in 1..Len(conn[c].out) :
        conn[c].out[i].payload = "JobId" =>
            \/ \E k \in 1..Len(event_tx.q) :
                    event_tx.q[k] = [ event |-> "JobAdded", job_id |-> conn[c].out[i].job_id ]
            \/ \E k \in 1..Len(bcast) :
                    bcast[k] = Message("Event", None, "JobAdded", conn[c].out[i].job_id)

\* C18 (as stated): every connection is sent every Event broadcast while it is
\* connected: its receiver skips none, the Events written to it are the Events
\* broadcast since it subscribed, and the JobAdded of an accepted AddJob carries
\* the id returned to the client that sent the AddJob.
C18_EveryEventSent ==
    /\ JobAddedFollows
    /\ \A c \in Conns :
            /\ conn[c].skipped = {}
            /\ Written(c, "Event") = Pick(bcast, Taken(c))

\* C18 (amended): the same, but for the Events a connection is made to skip by a
\* Lagged error, which are Events that at least BroadcastCapacity later Events
\* have followed on the channel.
C18_EveryEventSentUnlessLagged ==
    /\ JobAddedFollows
    /\ \A c \in Conns :
            /\ \A p \in conn[c].skipped : p + BroadcastCapacity <= Len(bcast)
            /\ Written(c, "Event") = Pick(bcast, Taken(c))

\* two connections have been sent the JobAdded of the AddJob whose answer, with
\* the same id, went to a third one
C18_Witness ==
    \E a \in Conns : \E i \in 1..Len(conn[a].out) :
        /\ conn[a].out[i].payload = "JobId"
        /\ Cardinality({ c \in Conns \ { a } :
                \E k \in 1..Len(conn[c].out) :
                    conn[c].out[k] = Message("Event", None, "JobAdded", conn[a].out[i].job_id) }) >= 2

\* C20 (as stated): a frame that is not a Request, malformed or well-formed, ends
\* its connection, and leaves the other connections as they are.
C20_NonRequestCloses ==
    [][ \A c \in Conns :
          ( handle_client_read(c) /\ Head(conn[c].inbox).kind # "Request" )
            => /\ conn'[c].pc = "closed"
               /\ \A d \in Conns \ { c } : conn'[d] = conn[d]
      ]_vars

\* C20 (amended): a frame that does not deserialize ends its connection; a
\* well-formed message that is not a Request is skipped and its connection stays
\* open; both leave the other connections, which go on being served, as they are.
C20_MalformedCloses ==
    [][ \A c \in Conns :
          ( handle_client_read(c) /\ Head(conn[c].inbox).kind # "Request" )
            => /\ conn'[c].pc = IF Head(conn[c].inbox).kind = "Malformed"
                                THEN "closed" ELSE "select"
               /\ conn'[c].out = conn[c].out
               /\ \A d \in Conns \ { c } : conn'[d] = conn[d]
               /\ UNCHANGED << queue, active, history, event_tx, bcast >>
      ]_vars

\* a connection was closed, and another one has since been sent a Response and an
\* Event
C20_Witness ==
    \E c, d \in Conns :
        /\ conn[c].pc = "closed"
        /\ conn[c].next <= Len(bcast)
        /\ Written(d, "Response") # << >>
        /\ Written(d, "Event") # << >>

\* the steps of the shutdown, in the order of the claim
ShutdownOrder ==
    << "stop_accepting_jobs", "wait_active_jobs", "save_state", "remove_socket" >>

\* C21: the shutdown does its steps in the order stop accepting, wait, save,
\* remove the socket: the gate is closed from the first step on; the wait sleeps
\* at most the grace period and ends when the active set is empty or the period
\* is over, whether or not jobs are still active; the final save_state call only
\* reads the store after the wait and the socket is only removed after that call
\* has returned.
C21_ShutdownOrder ==
    [][ /\ main'.steps = SubSeq(ShutdownOrder, 1, Len(main'.steps))
        /\ main'.steps # << >> => ~accepting_jobs'
        /\ main'.polls <= GracePolls + 1
        /\ ( wait_active_jobs /\ main'.pc # "wait" )
              => ( DOMAIN active = {} \/ main.polls > GracePolls )
        /\ main'.state # main.state => Len(main.steps) = 2
        /\ ( disk' # disk \/ save_call' # save_call ) => Len(main.steps) = 2
        /\ ~main'.socket <=> Len(main'.steps) = 4
      ]_vars

\* main() has returned with a job still active: the wait gave up, the snapshot
\* with that job was written and the socket removed
C21_Witness ==
    /\ main.pc = "done"
    /\ DOMAIN active # {}
    /\ main.polls > GracePolls
    /\ disk.state_file = FileOf(main.state, "all")
    /\ main.state.active # << >>
    /\ ~main.socket

\* C22: load_state on a missing state file gives the empty store without an
\* error; on a file that does not parse it gives an error, which main() logs, and
\* leaves the queue, the active set and the history of the new store as they
\* were (empty); the daemon then runs with that state: the gate is open and the
\* admission loop waits.  A file that parses gives its queue followed by its
\* demoted active jobs, and its history.
C22_LoadMissingOrMalformed ==
    [][ Restart =>
          LET file == disk.state_file
          IN  /\ ~file.exists
                    => /\ load(file) = [ ok |-> TRUE, state |-> EmptySnapshot ]
                       /\ ~main'.load_error
                       /\ queue' = << >> /\ active' = EmptyMap /\ history' = << >>
              /\ ( file.exists /\ file.bytes # "all" )
                    => /\ ~load(file).ok
                       /\ main'.load_error
                       /\ queue' = << >> /\ active' = EmptyMap /\ history' = << >>
              /\ ( file.exists /\ file.bytes = "all" )
                    => /\ ~main'.load_error
                       /\ IdSeq(queue') = IdSeq(file.state.queue) \o IdSeq(file.state.active)
                       /\ active' = EmptyMap
                       /\ history' = file.state.history
              /\ accepting_jobs' /\ starter' = IdleStarter /\ main'.pc = "running"
      ]_vars

\* the daemon was restarted on a state file that does not parse, started with
\* an empty store and has accepted a job since
C22_Witness ==
    /\ events > 0
    /\ main.load_error
    /\ disk.state_file.exists /\ disk.state_file.bytes = "part"
    /\ disk.state_file.state.queue # << >>
    /\ history = << >>
    /\ \E i \in 1..Len(queue) : last_event[queue[i].id] = "JobAdded"

\* C23: every ClearHistory call, on a history with entries or on an empty one
\* (a second call), returns success and leaves the history empty, and changes
\* neither the queue nor the active set (so no job's status) nor the gate, sends
\* no event and does not notify the admission loop.
C23_ClearHistoryIdempotent ==
    [][ \A c \in Clients :
          clear_history(c) =>
              /\ history' = << >>
              /\ clients'[c].pc = "idle" /\ clients'[c].ret = "ok"
              /\ UNCHANGED << queue, active, active_controls, accepting_jobs,
                              start_notify, last_event, starter, tasks >>
      ]_vars

\* two requests have been made, both returned success and no job was ever added:
\* a second ClearHistory has succeeded on the empty history
C23_Witness ==
    /\ events = 2
    /\ \A c \in Clients : clients[c].pc = "idle" /\ clients[c].ret = "ok"
    /\ \A id \in JobIds : last_event[id] = "None"
    /\ history = << >> /\ queue = << >> /\ accepting_jobs

\* C24: after every call of parse_line, progress_percent is 100 * frame /
\* total_frames when total_frames is known (and not 0), or else 100 * the time
\* encoded / total_duration when total_duration is known; with frame 1000 of
\* 2000 it is 50.
C24_ProgressAfterEveryLine ==
    /\ ( parser.total_frames # NoValue /\ parser.total_frames # Some(0) )
            => parser.progress_percent * parser.total_frames[1] = 100 * parser.frame
    /\ ( parser.total_frames = NoValue /\ parser.total_duration # NoValue )
            => parser.progress_percent * parser.total_duration[1]
                    = 100 * parser.time_encoded
    /\ ( parser.total_frames = NoValue /\ parser.total_duration = NoValue )
            => parser.progress_percent = 0

\* C25: after every update of the parser, the ETA is (total_frames - frame) / fps
\* when total_frames is known and the fps is positive, and is absent otherwise.
C25_EtaAfterEveryUpdate ==
    parser.updated =>
        IF parser.total_frames # NoValue /\ parser.fps > 0
        THEN parser.eta # NoValue
             /\ parser.eta[1] * parser.fps
                    = saturating_sub(parser.total_frames[1], parser.frame)
        ELSE parser.eta = NoValue

TerminalEvents == { "JobCompleted", "JobFailed", "JobCancelled" }

\* the places of the events of a job in the sequence of the events sent
EventsOf(id, evs) ==
    { i \in 1..Len(event_tx.q) : event_tx.q[i].job_id = id /\ event_tx.q[i].event \in evs }

EventsOfNext(id, evs) ==
    { i \in 1..Len(event_tx'.q) : event_tx'.q[i].job_id = id /\ event_tx'.q[i].event \in evs }

\* C27: once the run of a dispatched job has finished (Ok, error, or the error of
\* the cancel branch), the steps of its task drop the cancel control, remove the
\* job from the active set, give it a terminal status and a finish time, append
\* it to the history and notify the admission loop; and from the end of the run
\* to the end of the task one terminal event of the job is sent, by the step
\* that removes it from the active set, and none by any other step.
C27_Completion ==
    [][ \A id \in JobIds :
          /\ task_controls(id) => id \notin active_controls'
          /\ task_remove(id) =>
                /\ id \notin DOMAIN active'
                /\ id \notin active_controls'
                /\ tasks'[id].job.status \in { "Completed", "Failed", "Cancelled" }
                /\ tasks'[id].job.finished_at = "Some"
          /\ task_push(id) =>
                /\ id \notin DOMAIN active'
                /\ id \notin active_controls'
                /\ history' = Append(history, tasks[id].job)
                /\ tasks[id].job.id = id
                /\ tasks[id].job.status \in { "Completed", "Failed", "Cancelled" }
                /\ tasks[id].job.finished_at = "Some"
                /\ start_notify'
          /\ tasks[id].pc \in { "controls", "remove", "push" } =>
                Cardinality(EventsOfNext(id, TerminalEvents))
                    = Cardinality(EventsOf(id, TerminalEvents))
                        + ( IF tasks[id].pc = "remove" /\ tasks'[id].pc = "push"
                            THEN 1 ELSE 0 ) ]_vars

\* the task of a cancelled run has ended while another job waited in the queue:
\* the job is in the history and the loop holds a notification
C27_Witness ==
    \E id \in JobIds :
        /\ tasks[id].pc = "none"
        /\ \E i \in 1..Len(history) :
                history[i].id = id /\ history[i].finished_at = "Some"
        /\ Cardinality(EventsOf(id, { "JobFailed" })) = 1
        /\ id \notin DOMAIN active
        /\ queue # << >>
        /\ start_notify

\* C28: in the sequence of the events sent, for every job: a JobStarted has a
\* JobAdded before it, a JobProgress has a JobStarted before it, and a
\* JobProgress that follows a terminal event has a later JobStarted between (it
\* belongs to a later run); and the step that sends JobStarted leaves the job
\* Running, with a start time, in the active set.
C28_EventsInOrder ==
    \A id \in JobIds :
        /\ \A j \in EventsOf(id, { "JobStarted" }) :
                \E i \in EventsOf(id, { "JobAdded" }) : i < j
        /\ \A j \in EventsOf(id, { "JobProgress" }) :
                \E i \in EventsOf(id, { "JobStarted" }) : i < j
        /\ \A i \in EventsOf(id, TerminalEvents) :
                \A j \in EventsOf(id, { "JobProgress" }) :
                    i < j => \E k \in EventsOf(id, { "JobStarted" }) : i < k /\ k < j
        /\ ( last_event[id] = "JobStarted" /\ id \in DOMAIN active ) =>
                ( active[id].status = "Running" /\ active[id].started_at = "Some" )

\* how many entries of a snapshot hold the job id
InSnapshot(state, id) ==
    Cardinality({ i \in 1..Len(state.queue) : state.queue[i].id = id })
    + Cardinality({ i \in 1..Len(state.active) : state.active[i].id = id })
    + Cardinality({ i \in 1..Len(state.history) : state.history[i].id = id })

\* C29: when save_state has read the queue, the active set and the history (the
\* step that completes the snapshot it then writes), every job accepted and not
\* removed from the history is in the snapshot exactly once, whatever dispatch,
\* completion, CancelJob and RetryJob were doing meanwhile.
C29_SnapshotHoldsEveryJobOnce ==
    [][ save_state_history =>
            \A id \in accepted : InSnapshot(saver'.state, id) = 1 ]_vars

\* C30: a job of the state file that load_state put into the queue (a persisted
\* queued job or a demoted active one) is eventually dispatched (it is in the active set or,
\* its run over, in the history), the admission loop and the job tasks being
\* scheduled, whether or not an AddJob ever comes.
C30_RestoredJobsDispatched ==
    \A id \in JobIds :
        ( id \in Ids(queue) /\ id \in Ids(load_state_queue(disk.state_file)) )
            ~> ( id \in DOMAIN active \/ id \in Ids(history) )

\* C31: the step of the stats task that handles one progress update of a job
\* leaves the queue and the history as they are and the active set with the same
\* jobs; no other job of the active set changes; the job itself, when it is in
\* the active set, changes in its stats field only; when it is not, the active
\* set is unchanged (the job is not inserted again).
C31_ProgressChangesOnlyStats ==
    [][ \A id \in JobIds :
          stats_task(id) =>
              /\ queue' = queue
              /\ history' = history
              /\ DOMAIN active' = DOMAIN active
              /\ \A k \in DOMAIN active \ { id } : active'[k] = active[k]
              /\ id \in DOMAIN active =>
                    active'[id] = [ active[id] EXCEPT !.stats = active'[id].stats ]
              /\ id \notin DOMAIN active => active' = active ]_vars

\* a progress update was handled after its job had left the active set and
\* reached the history
C31_Witness ==
    \E id \in JobIds :
        /\ id \in Ids(history)
        /\ id \notin DOMAIN active
        /\ stats_rx[id] = 0
        /\ last_event[id] = "JobProgress"

\* C32: encode_job starts its stages in the order probe, video, audio, mux,
\* cleanup; when it has returned an error the failing stage is the last one
\* started; a failed probe has spawned neither ffmpeg nor the encoder; and the
\* job is then Failed with a message that holds the diagnostic of the failing
\* step.
C32_FirstFailureAborts ==
    /\ encode.started = SubSeq(Stages, 1, Len(encode.started))
    /\ ( encode.pc = "returned" /\ encode.result # Ok ) =>
            /\ encode.started # Stages
            /\ ( encode.started = << "probe" >> =>
                    encode.spawned \cap { "ffmpeg", "encoder" } = {} )
            /\ encode.job.status = "Failed"
            /\ encode.job.error_message = "Some"
            /\ \E i \in 1..Len(encode.error_message) :
                    encode.error_message[i] = Diagnostic(encode.result)

\* C33: once stop_accepting_jobs has returned (the gate is closed), no step of
\* AddJob pushes a job to the queue, whenever that AddJob read the gate.
C33_NoPushAfterStop ==
    [][ \A c \in Clients : add_job_push(c) => accepting_jobs ]_vars

\* the complete files: the state file of before and the snapshots of the callers
CompleteFiles ==
    { Json("earlier", 1) } \cup { Json(c, saves.len[c]) : c \in Savers }

\* C34: with the auto-save and the final save calling Persistence::save at the
\* same time, the state file is at every moment there and complete (the file of
\* before or one of the two snapshots), and a call that has returned reports Ok
\* exactly when its rename put its own complete snapshot in place.
C34_ConcurrentSaves ==
    /\ saves.files.state_file \in CompleteFiles
    /\ \A c \in Savers :
          /\ saves.result[c] = "ok" => saves.put[c] = Json(c, saves.len[c])
          /\ ( saves.result[c] = "err" /\ \A d \in Savers : saves.pc[d] = "done" )
                => saves.files.state_file # Json(c, saves.len[c])

\* C35: once a Shutdown request has been answered Ok, the admission gate is
\* eventually closed (main() runs stop_accepting_jobs), after which AddJob
\* requests are refused.
C35_ShutdownRequestStops ==
    ( clients[1].ret = "shutdown_ok" ) ~> ( ~accepting_jobs )

\* the records of a stream: it is cut at every CR and every LF, and the pieces
\* that are empty or white space only are left out
RECURSIVE RecordsFrom(_, _)
RecordsFrom(stream, piece) ==
    IF stream = << >>
    THEN ( IF trim(piece) = << >> THEN << >> ELSE << trim(piece) >> )
    ELSE IF Head(stream) \in { "CR", "LF" }
    THEN ( IF trim(piece) = << >> THEN << >> ELSE << trim(piece) >> )
            \o RecordsFrom(Tail(stream), << >>)
    ELSE RecordsFrom(Tail(stream), Append(piece, Head(stream)))

Records(stream) == RecordsFrom(stream, << >>)

\* C37: when the reader has read the stream to its end, the records it passed
\* to the parser and published are the records of the stream, in stream order.
C37_EveryRecordPublished ==
    reader.pc = "done" => reader.sent = Records(reader.stream)

\* C38: the total frame count of a probe is the metadata count when there is
\* one; else, with precise counting on and a decode-only pass that succeeded,
\* the count of that pass; else (precise counting off, or the pass failed or
\* timed out) the estimate ceil(duration * fps) when the duration is known; and
\* absent otherwise.
C38_FrameCountPriority ==
    probe.pc = "done" =>
        probe.total_frames =
            IF and_then_parse_u64(probe.nb_frames) # NoValue
            THEN and_then_parse_u64(probe.nb_frames)
            ELSE IF probe.precise_count /\ probe.pass.kind = "success"
            THEN Some(probe.pass.last_frame)
            ELSE IF probe.duration # NoValue
            THEN Some(estimate(probe.duration[1], probe.fps))
            ELSE NoValue

\* C39: parse_frame_rate gives for "N/D" with D > 0 the quotient N / D, not
\* truncated to an integer (here to the thousandth: "24000/1001" gives 23.976),
\* for a plain number "N" the number N, and no value when D is 0 or when a
\* part is not a number.
C39_FrameRate ==
    frame_rate.pc = "done" =>
        LET str == frame_rate.rate_str
            parts == split_once(str)
        IN  /\ ( parts = NoValue /\ parse_f64(str) # NoValue ) =>
                    /\ frame_rate.fps # NoValue
                    /\ frame_rate.fps[1] * Pow10(parse_f64(str)[1].k)
                            = parse_f64(str)[1].n * 1000
            /\ ( parts = NoValue /\ parse_f64(str) = NoValue ) => frame_rate.fps = NoValue
            /\ parts # NoValue =>
                    LET N == parse_f64(parts[1][1])
                        D == parse_f64(parts[1][2])
                    IN  IF N = NoValue \/ D = NoValue THEN frame_rate.fps = NoValue
                        ELSE IF D[1].n = 0 THEN frame_rate.fps = NoValue
                        ELSE /\ frame_rate.fps # NoValue
                             /\ frame_rate.fps[1] * D[1].n * Pow10(N[1].k)
                                    <= N[1].n * Pow10(D[1].k) * 1000
                             /\ ( frame_rate.fps[1] + 1 ) * D[1].n * Pow10(N[1].k)
                                    > N[1].n * Pow10(D[1].k) * 1000
            /\ str = << "2", "4", "0", "0", "0", "/", "1", "0", "0", "1" >> =>
                    frame_rate.fps = Some(23976)

C39_Witness ==
    /\ frame_rate.pc = "done"
    /\ frame_rate.rate_str = << "2", "4", "0", "0", "0", "/", "1", "0", "0", "1" >>
    /\ frame_rate.fps = Some(23976)

\* C40: every job id that has a control (a cancel channel) is in the active
\* set; a job of the queue or of the history has none, so cancel_job never sends
\* a cancel signal for such a job.
C40_ControlsAreActive ==
    /\ active_controls \subseteq DOMAIN active
    /\ \A id \in active_controls : id \notin Ids(queue) /\ id \notin Ids(history)

C40_Witness ==
    \E id \in active_controls :
        /\ id \in DOMAIN active
        /\ cancel_rx[id]
        /\ queue # << >>
        /\ history # << >>

\* C36: wait_active_jobs always returns (when a poll sees the active set empty,
\* else once the timeout has passed), also when active jobs never finish or the
\* admission loop keeps dispatching, and it changes neither the queue, nor the
\* active set, nor the history.
C36_WaitActiveJobsTerminates ==
    /\ [][ wait_active_jobs => UNCHANGED << queue, active, history >> ]_vars
    /\ ( main.pc = "wait" ) ~> ( main.pc # "wait" )

\* C7: whatever step of Persistence::save the process stops after, the state file
\* is the complete file it was before the call or the complete new snapshot.
C7_SaveAtomic ==
    /\ load(disk.state_file).ok
    /\ \/ disk.state_file = save_call.prev
       \/ disk.state_file = FileOf(save_call.new, "all")

\* the process stopped in the middle of write_all, with an older snapshot in place
C7_Witness ==
    /\ saver.pc = "idle"
    /\ disk.tmp_file.exists
    /\ disk.tmp_file.bytes = "part"
    /\ disk.state_file.exists
    /\ disk.state_file.state # disk.tmp_file.state

====
